---------------------------- MODULE Spec2Model ----------------------------
(***************************************************************************)
(* Classification-and-citation engine of requirements2pdf.py.              *)
(*                                                                         *)
(* Strings are sequences of code points (ASCII), so that strip, lower,     *)
(* split, substring tests and lexicographic order are computed as Python   *)
(* computes them.  A JSON value is a pair <<tag, payload>>:                 *)
(*   null  : 0                bool : a BOOLEAN          num : an integer   *)
(*   str   : sequence of code points                                       *)
(*   list  : sequence of values                                            *)
(*   dict  : function from key strings to values                           *)
(* Python's None and JSON null are the same value (json.load).             *)
(***************************************************************************)
EXTENDS Integers, Sequences, FiniteSets, Bags, TLC

(***************************************************************************)
(* JSON values                                                             *)
(***************************************************************************)
Null == <<"null", 0>>
JBool(b) == <<"bool", b>>
JNum(n) == <<"num", n>>
JStr(s) == <<"str", s>>
JList(xs) == <<"list", xs>>
JDict(f) == <<"dict", f>>
EmptyDict == JDict(<<>>)

Tag(x) == x[1]
Val(x) == x[2]

IsStr(x) == Tag(x) = "str"
IsList(x) == Tag(x) = "list"
IsDict(x) == Tag(x) = "dict"
IsBool(x) == Tag(x) = "bool"

\* dict.get(key): the value, or None when the key is missing.
DictGet(d, k) == IF k \in DOMAIN Val(d) THEN Val(d)[k] ELSE Null

\* Python truthiness, bool(x).
Truthy(x) ==
  CASE Tag(x) = "null" -> FALSE
    [] Tag(x) = "bool" -> Val(x)
    [] Tag(x) = "num"  -> Val(x) # 0
    [] Tag(x) = "str"  -> Val(x) # <<>>
    [] Tag(x) = "list" -> Val(x) # <<>>
    [] Tag(x) = "dict" -> DOMAIN Val(x) # {}

\* Python ==  on JSON values (True == 1 and False == 0 hold in Python).
RECURSIVE PyEq(_, _)
PyEq(a, b) ==
  CASE Tag(a) \in {"bool", "num"} ->
         /\ Tag(b) \in {"bool", "num"}
         /\ (IF Tag(a) = "bool" THEN (IF Val(a) THEN 1 ELSE 0) ELSE Val(a))
              = (IF Tag(b) = "bool" THEN (IF Val(b) THEN 1 ELSE 0) ELSE Val(b))
    [] Tag(a) = "null" -> Tag(b) = "null"
    [] Tag(a) = "str"  -> Tag(b) = "str" /\ Val(a) = Val(b)
    [] Tag(a) = "list" ->
         /\ Tag(b) = "list"
         /\ Len(Val(a)) = Len(Val(b))
         /\ \A i \in 1..Len(Val(a)) : PyEq(Val(a)[i], Val(b)[i])
    [] Tag(a) = "dict" ->
         /\ Tag(b) = "dict"
         /\ DOMAIN Val(a) = DOMAIN Val(b)
         /\ \A k \in DOMAIN Val(a) : PyEq(Val(a)[k], Val(b)[k])

\* x in xs, for a Python list xs.
PyInList(x, xs) == \E i \in 1..Len(xs) : PyEq(xs[i], x)

(***************************************************************************)
(* Strings                                                                 *)
(***************************************************************************)
\* str.isspace() on ASCII: \t \n \v \f \r, FS GS RS US, space.
IsSpace(c) == c \in (9..13) \cup (28..32)

RECURSIVE LStrip(_)
LStrip(s) == IF s # <<>> /\ IsSpace(Head(s)) THEN LStrip(Tail(s)) ELSE s

RECURSIVE RStrip(_)
RStrip(s) ==
  IF s # <<>> /\ IsSpace(s[Len(s)]) THEN RStrip(SubSeq(s, 1, Len(s) - 1)) ELSE s

\* str.strip()
Strip(s) == RStrip(LStrip(s))

\* Mutant of Lower: the letters keep their case.
Lower_asIs(s) == s

\* str.lower() on ASCII
Lower(s) == [i \in 1..Len(s) |-> IF s[i] \in 65..90 THEN s[i] + 32 ELSE s[i]]

\* str.startswith(prefix)
StartsWith(s, p) == Len(p) <= Len(s) /\ SubSeq(s, 1, Len(p)) = p

\* needle in hay, for two Python strings
IsSubstring(needle, hay) ==
  \E i \in 0..(Len(hay) - Len(needle)) : SubSeq(hay, i + 1, i + Len(needle)) = needle

\* str.split("."): the pieces between the dots, empty pieces kept.
RECURSIVE SplitDots(_, _)
SplitDots(s, cur) ==
  IF s = <<>> THEN <<cur>>
  ELSE IF Head(s) = 46 THEN <<cur>> \o SplitDots(Tail(s), <<>>)
  ELSE SplitDots(Tail(s), Append(cur, Head(s)))

\* a < b for Python strings: code point order, a proper prefix is smaller.
RECURSIVE StrLess(_, _)
StrLess(a, b) ==
  IF b = <<>> THEN FALSE
  ELSE IF a = <<>> THEN TRUE
  ELSE IF Head(a) # Head(b) THEN Head(a) < Head(b)
  ELSE StrLess(Tail(a), Tail(b))

S_requirement == <<114, 101, 113, 117, 105, 114, 101, 109, 101, 110, 116>>
S_requirement_dot == <<114, 101, 113, 117, 105, 114, 101, 109, 101, 110, 116, 46>>
S_BRD99 == <<66, 82, 68, 45, 57, 57>>
S_Other == <<79, 116, 104, 101, 114>>
K_id == <<105, 100>>
K_kind == <<107, 105, 110, 100>>
K_references == <<114, 101, 102, 101, 114, 101, 110, 99, 101, 115>>
K_relativePath == <<114, 101, 108, 97, 116, 105, 118, 101, 80, 97, 116, 104>>
K_title == <<116, 105, 116, 108, 101>>
K_requirements == <<114, 101, 113, 117, 105, 114, 101, 109, 101, 110, 116, 115>>
K_sourceDocument == <<115, 111, 117, 114, 99, 101, 68, 111, 99, 117, 109, 101, 110, 116>>
K_sections == <<115, 101, 99, 116, 105, 111, 110, 115>>
K_assignmentPolicy == <<97, 115, 115, 105, 103, 110, 109, 101, 110, 116, 80, 111, 108, 105, 99, 121>>
K_unassignedSectionId == <<117, 110, 97, 115, 115, 105, 103, 110, 101, 100, 83, 101, 99, 116, 105, 111, 110, 73, 100>>
K_firstMatchWins == <<102, 105, 114, 115, 116, 77, 97, 116, 99, 104, 87, 105, 110, 115>>
K_match == <<109, 97, 116, 99, 104>>
K_any == <<97, 110, 121>>
K_all == <<97, 108, 108>>
K_field == <<102, 105, 101, 108, 100>>
K_op == <<111, 112>>
K_value == <<118, 97, 108, 117, 101>>
K_statement == <<115, 116, 97, 116, 101, 109, 101, 110, 116>>
K_story == <<115, 116, 111, 114, 121>>
K_asA == <<97, 115, 65>>
K_iWant == <<105, 87, 97, 110, 116>>
K_soThat == <<115, 111, 84, 104, 97, 116>>
OP_exists == <<101, 120, 105, 115, 116, 115>>
OP_eq == <<101, 113>>
OP_in == <<105, 110>>
OP_contains == <<99, 111, 110, 116, 97, 105, 110, 115>>
OP_containsText == <<99, 111, 110, 116, 97, 105, 110, 115, 84, 101, 120, 116>>

(***************************************************************************)
(* Path resolver, match evaluator, expression evaluator                    *)
(***************************************************************************)
\* Mutant of WalkPath: a value that is not a mapping is returned as it is.
RECURSIVE WalkPath_lenient(_, _)
WalkPath_lenient(cur, parts) ==
  IF parts = <<>> THEN cur
  ELSE IF ~IsDict(cur) THEN cur
  ELSE WalkPath_lenient(DictGet(cur, Head(parts)), Tail(parts))

\* The loop of _get_by_dotted_path over the split path.
RECURSIVE WalkPath(_, _)
WalkPath(cur, parts) ==
  IF parts = <<>> THEN cur
  ELSE IF ~IsDict(cur) THEN Null
  ELSE WalkPath(DictGet(cur, Head(parts)), Tail(parts))

\* Mutant of _get_by_dotted_path: the "requirement." prefix is walked as a key.
_get_by_dotted_path_keepPrefix(obj, dotted) ==
  IF ~IsStr(dotted) \/ Strip(Val(dotted)) = <<>> THEN Null
  ELSE IF Strip(Val(dotted)) = S_requirement THEN obj
  ELSE WalkPath(obj, SplitDots(Strip(Val(dotted)), <<>>))

_get_by_dotted_path(obj, dotted) ==
  IF ~IsStr(dotted) \/ Strip(Val(dotted)) = <<>> THEN Null
  ELSE LET path == Strip(Val(dotted)) IN
       IF StartsWith(path, S_requirement_dot)
         THEN WalkPath(obj, SplitDots(SubSeq(path, Len(S_requirement_dot) + 1, Len(path)), <<>>))
       ELSE IF path = S_requirement THEN obj
       ELSE WalkPath(obj, SplitDots(path, <<>>))

\* Mutant of UnknownOp: an operator the evaluator does not know matches.
UnknownOp_failOpen(op) == TRUE

\* The last line of _eval_op, reached by every other operator: return False
UnknownOp(op) == FALSE

_eval_op(value, op, expected) ==
  IF op = OP_exists THEN
    LET exists == Tag(value) # "null" IN
    IF IsBool(expected) THEN exists = Val(expected) ELSE exists
  ELSE IF op = OP_eq THEN PyEq(value, expected)
  ELSE IF op = OP_in THEN IsList(expected) /\ PyInList(value, Val(expected))
  ELSE IF op = OP_contains THEN
    IF IsList(value) THEN PyInList(expected, Val(value))
    ELSE IF IsStr(value) /\ IsStr(expected) THEN IsSubstring(Val(expected), Val(value))
    ELSE FALSE
  ELSE IF op = OP_containsText THEN
    IF ~IsStr(expected) THEN FALSE
    ELSE LET needle == Lower(Val(expected)) IN
         IF IsStr(value) THEN IsSubstring(needle, Lower(Val(value)))
         ELSE IF IsList(value)
           THEN \E i \in 1..Len(Val(value)) :
                  IsStr(Val(value)[i]) /\ IsSubstring(needle, Lower(Val(Val(value)[i])))
         ELSE FALSE
  ELSE UnknownOp(op)

RECURSIVE _eval_match_expr(_, _)

\* Mutant of AnyOf: the children are combined with "and".
AnyOf_asAll(requirement, items) ==
  \A i \in 1..Len(items) : _eval_match_expr(requirement, items[i])

\* any(_eval_match_expr(requirement, it) for it in items)
AnyOf(requirement, items) ==
  \E i \in 1..Len(items) : _eval_match_expr(requirement, items[i])

\* all(_eval_match_expr(requirement, it) for it in items): True of no items
AllOf(requirement, items) ==
  \A i \in 1..Len(items) : _eval_match_expr(requirement, items[i])

\* Mutant of LeafOp: a leaf without "op" is read as an exists test.
LeafOp_defaultExists(expr) ==
  IF K_op \in DOMAIN Val(expr) THEN DictGet(expr, K_op) ELSE JStr(OP_exists)

\* op = expr.get("op")
LeafOp(expr) == DictGet(expr, K_op)

_eval_match_expr(requirement, expr) ==
  IF ~IsDict(expr) THEN FALSE
  ELSE IF K_any \in DOMAIN Val(expr) THEN
    LET items == DictGet(expr, K_any) IN
    IsList(items) /\ AnyOf(requirement, Val(items))
  ELSE IF K_all \in DOMAIN Val(expr) THEN
    LET items == DictGet(expr, K_all) IN
    IsList(items) /\ AllOf(requirement, Val(items))
  ELSE
    LET field == DictGet(expr, K_field)
        op == LeafOp(expr)
        expected == DictGet(expr, K_value)
    IN IF ~IsStr(field) \/ ~IsStr(op) THEN FALSE
       ELSE _eval_op(_get_by_dotted_path(requirement, field), Val(op), expected)

(***************************************************************************)
(* Helpers of build_pdf                                                    *)
(***************************************************************************)
\* The walk of _safe_get; the caller substitutes the default for None.
RECURSIVE SafeWalk(_, _)
SafeWalk(cur, path) ==
  IF path = <<>> THEN cur
  ELSE IF ~IsDict(cur) THEN Null
  ELSE SafeWalk(DictGet(cur, Head(path)), Tail(path))

_safe_get(dct, path, default) ==
  LET cur == SafeWalk(dct, path) IN IF Tag(cur) = "null" THEN default ELSE cur

_as_list(value) == IF IsList(value) THEN Val(value) ELSE <<>>

\* isinstance(x, str) and x.strip()
NonBlankStr(x) == IsStr(x) /\ Strip(Val(x)) # <<>>

\* [x for x in xs if isinstance(x, dict)]
RECURSIVE OnlyDicts(_)
OnlyDicts(xs) ==
  IF xs = <<>> THEN <<>>
  ELSE IF IsDict(Head(xs)) THEN <<Head(xs)>> \o OnlyDicts(Tail(xs))
  ELSE OnlyDicts(Tail(xs))

\* str(n) for an integer n
RECURSIVE Decimal(_)
Decimal(n) ==
  IF n < 0 THEN <<45>> \o Decimal(0 - n)
  ELSE IF n < 10 THEN <<48 + n>>
  ELSE Decimal(n \div 10) \o <<48 + (n % 10)>>

\* str(x) for the values a requirement id takes in the inputs below.
PyStr(x) ==
  CASE Tag(x) = "str"  -> Val(x)
    [] Tag(x) = "num"  -> Decimal(Val(x))
    [] Tag(x) = "bool" -> IF Val(x) THEN <<84, 114, 117, 101>> ELSE <<70, 97, 108, 115, 101>>
    [] Tag(x) = "null" -> <<78, 111, 110, 101>>

\* _load_brd_sections raises ValueError on these configurations.
LoadRaises(data) ==
  \/ ~IsDict(data)
  \/ ~IsList(DictGet(data, K_sections))
  \/ Val(DictGet(data, K_sections)) = <<>>

(***************************************************************************)
(* Section assigner and coercion                                           *)
(***************************************************************************)
\* A section takes part in matching: string non-empty id, non-empty match list.
SectionUsable(section) ==
  /\ IsStr(DictGet(section, K_id)) /\ Val(DictGet(section, K_id)) # <<>>
  /\ IsList(DictGet(section, K_match)) /\ Val(DictGet(section, K_match)) # <<>>

\* any(_eval_match_expr(requirement, rule) for rule in match_rules)
RulesMatch(requirement, section) ==
  LET match_rules == Val(DictGet(section, K_match)) IN
  \E i \in 1..Len(match_rules) : _eval_match_expr(requirement, match_rules[i])

\* The loop of _assign_brd_section_id from section i on; <<>> stands for
\* "fell out of the loop" and is resolved by the caller.
RECURSIVE AssignLoop(_, _, _, _, _)
AssignLoop(requirement, secs, i, matched, first_match_wins) ==
  IF i > Len(secs) THEN <<"end", matched>>
  ELSE IF ~SectionUsable(secs[i])
    THEN AssignLoop(requirement, secs, i + 1, matched, first_match_wins)
  ELSE IF RulesMatch(requirement, secs[i]) THEN
    LET sidv == Val(DictGet(secs[i], K_id)) IN
    IF first_match_wins THEN <<"return", <<sidv>>>>
    ELSE AssignLoop(requirement, secs, i + 1, Append(matched, sidv), first_match_wins)
  ELSE AssignLoop(requirement, secs, i + 1, matched, first_match_wins)

\* Mutant of _assign_brd_section_id: the last matching section wins.
_assign_brd_section_id_lastMatch(requirement, secs, policy) ==
  LET uid == DictGet(policy, K_unassignedSectionId)
      unassigned == IF IsStr(uid) /\ Val(uid) # <<>> THEN Val(uid) ELSE S_BRD99
      r == AssignLoop(requirement, secs, 1, <<>>, FALSE)
  IN IF r[2] # <<>> THEN r[2][Len(r[2])] ELSE unassigned

\* Mutant of PickMatched: of the collected matches the last one is returned.
PickMatched_last(matched) == matched[Len(matched)]

\* return matched[0] if matched else unassigned: the first collected match.
PickMatched(matched) == matched[1]

_assign_brd_section_id(requirement, secs, policy) ==
  LET first_match_wins ==
        IF K_firstMatchWins \in DOMAIN Val(policy)
          THEN Truthy(DictGet(policy, K_firstMatchWins)) ELSE TRUE
      uid == DictGet(policy, K_unassignedSectionId)
      unassigned == IF IsStr(uid) /\ Val(uid) # <<>> THEN Val(uid) ELSE S_BRD99
      r == AssignLoop(requirement, secs, 1, <<>>, first_match_wins)
  IN IF r[2] # <<>> THEN PickMatched(r[2]) ELSE unassigned

\* Mutant of _coerce_brd_section_id: the computed id is kept as it is.
_coerce_brd_section_id_asIs(section_id, valid_ids, fallback) == section_id

_coerce_brd_section_id(section_id, valid_ids, fallback) ==
  IF section_id \in valid_ids THEN section_id ELSE fallback

(***************************************************************************)
(* Classification index: section id -> ordered (kind, items) groups.       *)
(* A Python dict keeps insertion order, so the kinds of a section are a    *)
(* sequence; the order of the section keys is never read.                  *)
(***************************************************************************)
\* Mutant of KindKey: a string kind is taken as it is written.
KindKey_untrimmed(req) ==
  LET kind == DictGet(req, K_kind) IN
  IF NonBlankStr(kind) THEN Val(kind) ELSE S_Other

\* kind_key = str(kind).strip() if isinstance(kind, str) and kind.strip() else "Other"
KindKey(req) ==
  LET kind == DictGet(req, K_kind) IN
  IF NonBlankStr(kind) THEN Strip(Val(kind)) ELSE S_Other

\* Mutant of IndexEntry: the section id is written into the record that is kept.
IndexEntry_stamped(req, docRel) ==
  [req |-> JDict((<<115, 101, 99, 116, 105, 111, 110, 73, 100>> :> JStr(S_BRD99)) @@ Val(req)), docRel |-> docRel]

\* {"req": req, "docRel": doc_key}: the entry holds the record itself
IndexEntry(req, docRel) == [req |-> req, docRel |-> docRel]

\* Mutant of IndexAppend: the bucket is replaced by the new item.
IndexAppend_overwrite(index, s, kind_key, item) ==
  LET groups == IF s \in DOMAIN index THEN index[s] ELSE <<>>
      pos == {k \in 1..Len(groups) : groups[k].kind = kind_key}
      groups2 ==
        IF pos = {} THEN Append(groups, [kind |-> kind_key, items |-> <<item>>])
        ELSE [k \in 1..Len(groups) |->
                IF k \in pos THEN [groups[k] EXCEPT !.items = <<item>>]
                ELSE groups[k]]
  IN [x \in DOMAIN index \cup {s} |-> IF x = s THEN groups2 ELSE index[x]]

\* section_index.setdefault(sid, {}).setdefault(kind_key, []).append(item)
IndexAppend(index, s, kind_key, item) ==
  LET groups == IF s \in DOMAIN index THEN index[s] ELSE <<>>
      pos == {k \in 1..Len(groups) : groups[k].kind = kind_key}
      groups2 ==
        IF pos = {} THEN Append(groups, [kind |-> kind_key, items |-> <<item>>])
        ELSE [k \in 1..Len(groups) |->
                IF k \in pos THEN [groups[k] EXCEPT !.items = Append(@, item)]
                ELSE groups[k]]
  IN [x \in DOMAIN index \cup {s} |-> IF x = s THEN groups2 ELSE index[x]]

\* Mutant of DocKey: the declared relative path, blank when none is declared.
DocKey_declaredOnly(file) ==
  LET doc_rel == _safe_get(file.data, <<K_sourceDocument, K_relativePath>>, Null) IN
  IF IsStr(doc_rel) THEN Strip(Val(doc_rel)) ELSE <<>>

\* doc_key of a file: its declared relative path, else the file's name.
DocKey(file) ==
  LET doc_rel == _safe_get(file.data, <<K_sourceDocument, K_relativePath>>, Null) IN
  IF NonBlankStr(doc_rel) THEN Strip(Val(doc_rel)) ELSE file.name

\* The requirement dicts of a file.
FileReqs(file) == OnlyDicts(_as_list(DictGet(file.data, K_requirements)))


(***************************************************************************)
(* Bibliography and presentation order                                     *)
(***************************************************************************)
\* The stripped non-blank relativePath strings of a requirement's references.
RefPaths(req) ==
  LET refs == DictGet(req, K_references) IN
  IF ~IsList(refs) THEN {}
  ELSE {Strip(Val(DictGet(Val(refs)[i], K_relativePath))) :
          i \in {j \in 1..Len(Val(refs)) :
                   /\ IsDict(Val(refs)[j])
                   /\ NonBlankStr(DictGet(Val(refs)[j], K_relativePath))}}

\* Mutant of ItemPaths: only the reference paths, not the origin key.
ItemPaths_refsOnly(item) == RefPaths(item.req)

\* What one index item adds to all_source_relpaths.
ItemPaths(item) ==
  RefPaths(item.req) \cup
    (IF Strip(item.docRel) # <<>> THEN {Strip(item.docRel)} ELSE {})

\* Every item of the index, whatever its section and kind.
IndexItems(index) ==
  UNION {UNION {{index[s][k].items[n] : n \in 1..Len(index[s][k].items)} :
                  k \in 1..Len(index[s])} :
           s \in DOMAIN index}

\* all_source_relpaths after the scan of the whole index.
AllSourceRelpaths(index) == UNION {ItemPaths(item) : item \in IndexItems(index)}

\* sorted(set of strings)
RECURSIVE SortedStrs(_)
SortedStrs(S) ==
  IF S = {} THEN <<>>
  ELSE LET m == CHOOSE x \in S : \A y \in S \ {x} : StrLess(x, y)
       IN <<m>> \o SortedStrs(S \ {m})

\* all_items: the items of every kind of a section, in kind insertion order.
RECURSIVE Flatten(_)
Flatten(groups) ==
  IF groups = <<>> THEN <<>> ELSE Head(groups).items \o Flatten(Tail(groups))

\* Mutant of CitationNumbers: numbering starts at 0.
CitationNumbers_fromZero(index) ==
  LET bibliography_relpaths == SortedStrs(AllSourceRelpaths(index)) IN
  [rel \in AllSourceRelpaths(index) |->
     (CHOOSE idx \in 1..Len(bibliography_relpaths) : bibliography_relpaths[idx] = rel) - 1]

\* The items of the index, section by section.
RECURSIVE ItemsInOrder(_, _)
ItemsInOrder(sids, index) ==
  IF sids = <<>> THEN <<>>
  ELSE Flatten(index[Head(sids)]) \o ItemsInOrder(Tail(sids), index)

RECURSIVE PathsInOrder(_)
PathsInOrder(items) ==
  IF items = <<>> THEN <<>>
  ELSE SortedStrs(ItemPaths(Head(items))) \o PathsInOrder(Tail(items))

\* Mutant of CitationNumbers: paths are numbered as the scan meets them.
CitationNumbers_encounterOrder(index) ==
  LET met == PathsInOrder(ItemsInOrder(SortedStrs(DOMAIN index), index))
      FirstAt(rel) == CHOOSE i \in 1..Len(met) : met[i] = rel /\ \A j \in 1..(i - 1) : met[j] # rel
  IN [rel \in AllSourceRelpaths(index) |->
        Cardinality({other \in AllSourceRelpaths(index) : FirstAt(other) <= FirstAt(rel)})]

\* {rel: idx for idx, rel in enumerate(bibliography_relpaths, start=1)}
CitationNumbers(index) ==
  LET bibliography_relpaths == SortedStrs(AllSourceRelpaths(index)) IN
  [rel \in AllSourceRelpaths(index) |->
     CHOOSE idx \in 1..Len(bibliography_relpaths) : bibliography_relpaths[idx] = rel]
\* r in rels, for a list of strings
InRels(r, rels) == \E i \in 1..Len(rels) : rels[i] = r

\* The loop of _format_citations over the references: the stripped non-blank
\* relativePath strings in order, each once.
RECURSIVE CiteRels(_, _)
CiteRels(refs, rels) ==
  IF refs = <<>> THEN rels
  ELSE LET ref == Head(refs) IN
       IF ~IsDict(ref) THEN CiteRels(Tail(refs), rels)
       ELSE LET rel == DictGet(ref, K_relativePath) IN
            IF NonBlankStr(rel) /\ ~InRels(Strip(Val(rel)), rels)
              THEN CiteRels(Tail(refs), Append(rels, Strip(Val(rel))))
              ELSE CiteRels(Tail(refs), rels)

\* nums: the numbers of the rels that the table knows, in the order of rels
RECURSIVE CiteNums(_, _)
CiteNums(rels, table) ==
  IF rels = <<>> THEN <<>>
  ELSE IF Head(rels) \in DOMAIN table
    THEN <<table[Head(rels)]>> \o CiteNums(Tail(rels), table)
    ELSE CiteNums(Tail(rels), table)

\* sorted(S) for a set of integers
RECURSIVE InsertNum(_, _)
InsertNum(sorted, n) ==
  IF sorted = <<>> THEN <<n>>
  ELSE IF n < Head(sorted) THEN <<n>> \o sorted
  ELSE <<Head(sorted)>> \o InsertNum(Tail(sorted), n)

RECURSIVE SortedNumsOf(_, _)
SortedNumsOf(nums, acc) ==
  IF nums = <<>> THEN acc
  ELSE IF InRels(Head(nums), acc) THEN SortedNumsOf(Tail(nums), acc)
  ELSE SortedNumsOf(Tail(nums), InsertNum(acc, Head(nums)))

\* Mutant of CiteOrder: the numbers are kept as the references give them.
CiteOrder_asMet(nums) == nums

\* sorted(set(nums))
CiteOrder(nums) == SortedNumsOf(nums, <<>>)

\* "".join(f"[{n}]" for n in nums)
RECURSIVE JoinMarkers(_)
JoinMarkers(nums) ==
  IF nums = <<>> THEN <<>>
  ELSE <<91>> \o Decimal(Head(nums)) \o <<93>> \o JoinMarkers(Tail(nums))

_format_citations(req, doc_rel, table) ==
  LET refs == DictGet(req, K_references)
      own == IF IsList(refs) THEN CiteRels(Val(refs), <<>>) ELSE <<>>
      rels == IF NonBlankStr(doc_rel) /\ ~InRels(Strip(Val(doc_rel)), own)
                THEN Append(own, Strip(Val(doc_rel))) ELSE own
  IN JoinMarkers(CiteOrder(CiteNums(rels, table)))



\* The sort key of line 644: str(req.id), "" when the id is missing or null.
SortKey(item) == PyStr(_safe_get(item.req, <<K_id>>, JStr(<<>>)))

\* Mutant of InsertByKey: an item goes before the items with its own key.
RECURSIVE InsertByKey_beforeEquals(_, _)
InsertByKey_beforeEquals(sorted, item) ==
  IF sorted = <<>> THEN <<item>>
  ELSE IF ~StrLess(SortKey(Head(sorted)), SortKey(item))
    THEN <<item>> \o sorted
  ELSE <<Head(sorted)>> \o InsertByKey_beforeEquals(Tail(sorted), item)

\* list.sort(key=...) is stable: an item goes after every item whose key is
\* not greater than its own.
RECURSIVE InsertByKey(_, _)
InsertByKey(sorted, item) ==
  IF sorted = <<>> THEN <<item>>
  ELSE IF StrLess(SortKey(item), SortKey(Head(sorted)))
    THEN <<item>> \o sorted
  ELSE <<Head(sorted)>> \o InsertByKey(Tail(sorted), item)

RECURSIVE StableSortById(_, _)
StableSortById(items, acc) ==
  IF items = <<>> THEN acc
  ELSE StableSortById(Tail(items), InsertByKey(acc, Head(items)))

(***************************************************************************)
(* Inputs: match expressions, requirements, documents, taxonomies          *)
(***************************************************************************)
MaxKids == 2
MaxDocs == 2
MaxSections == 2

\* Sequences over S of length lo..hi.
SeqsOf(S, lo, hi) == UNION {[1..n -> S] : n \in lo..hi}

\* Sequences over S without repetition, of length lo..hi.
DistinctSeqsOf(S, lo, hi) ==
  {q \in SeqsOf(S, lo, hi) : \A i, j \in 1..Len(q) : i # j => q[i] # q[j]}

Leaf(field, op, value) ==
  JDict(K_field :> JStr(field) @@ K_op :> JStr(op) @@ K_value :> value)

\* {"field": "requirement.kind", "op": "eq", "value": "F"}
LeafKindF == Leaf(<<114, 101, 113, 117, 105, 114, 101, 109, 101, 110, 116, 46, 107, 105, 110, 100>>, OP_eq, JStr(<<70>>))
\* {"field": "kind", "op": "eq", "value": "NF"}
LeafKindNF == Leaf(K_kind, OP_eq, JStr(<<78, 70>>))
\* {"field": "requirement.title", "op": "exists", "value": true}
LeafHasTitle == Leaf(<<114, 101, 113, 117, 105, 114, 101, 109, 101, 110, 116, 46, 116, 105, 116, 108, 101>>, OP_exists, JBool(TRUE))
\* {"field": "requirement", "op": "exists", "value": true}: true of every record
LeafEverything == Leaf(S_requirement, OP_exists, JBool(TRUE))

\* Nodes that are neither a combinator nor a well-formed leaf.
MalformedNodes ==
  { Null, JStr(<<120>>), JNum(1), JBool(TRUE), JList(<<LeafEverything>>), EmptyDict,
    JDict(K_field :> JStr(S_requirement) @@ K_value :> JBool(TRUE)),
    JDict(K_op :> JStr(OP_exists) @@ K_value :> JBool(TRUE)),
    JDict(K_field :> JNum(1) @@ K_op :> JStr(OP_exists)),
    JDict(K_field :> JStr(S_requirement) @@ K_op :> JBool(TRUE)),
    JDict(K_field :> JStr(S_requirement) @@ K_op :> Null @@ K_value :> JBool(TRUE)) }

Combinator(key, body) == JDict(key :> body)

\* Nodes of mixed shape: a combinator key next to the leaf keys, or both
\* combinator keys, e.g. {"any": [<true leaf>], "field": "kind", "op": "eq", "value": "NF"}.
MixedNodes ==
  { JDict(K_any :> JList(<<LeafEverything>>) @@ Val(LeafKindNF)),
    JDict(K_any :> JList(<<>>) @@ Val(LeafEverything)),
    JDict(K_all :> JList(<<LeafEverything>>) @@ Val(LeafKindNF)),
    JDict(K_all :> JList(<<LeafKindNF>>) @@ Val(LeafEverything)),
    JDict(K_any :> JList(<<LeafEverything>>) @@ K_all :> JList(<<LeafKindNF>>)),
    JDict(K_any :> JList(<<LeafKindNF>>) @@ K_all :> JList(<<LeafEverything>>)) }

\* Bodies of a combinator that are not lists.
NonListBodies == {Null, JStr(<<120>>), LeafEverything}

KidsLevel0 == {LeafKindF, LeafHasTitle, JStr(<<120>>), JDict(K_field :> JStr(S_requirement))}

ExprLevel1 ==
  {Combinator(key, JList(kids)) :
     key \in {K_any, K_all}, kids \in SeqsOf(KidsLevel0, 0, MaxKids)}
  \cup {Combinator(key, body) : key \in {K_any, K_all}, body \in NonListBodies}

KidsLevel1 ==
  { LeafKindF,
    Combinator(K_all, JList(<<>>)),
    Combinator(K_any, JList(<<>>)),
    Combinator(K_any, JList(<<LeafHasTitle>>)),
    Combinator(K_all, JList(<<LeafKindF, LeafHasTitle>>)),
    Combinator(K_any, Null) }

ExprLevel2 ==
  {Combinator(key, JList(kids)) :
     key \in {K_any, K_all}, kids \in SeqsOf(KidsLevel1, 1, MaxKids)}

Exprs ==
  {LeafKindF, LeafKindNF, LeafHasTitle, LeafEverything}
    \cup MalformedNodes \cup MixedNodes \cup ExprLevel1 \cup ExprLevel2

Ref(path) == JDict(K_relativePath :> path)

\* {"id": "R1", "kind": "F", "title": "t", "references": [x, " x ", "  ", "s", 5]}
Req_a ==
  JDict(K_id :> JStr(<<82, 49>>) @@ K_kind :> JStr(<<70>>) @@ K_title :> JStr(<<116>>) @@
        K_references :> JList(<< Ref(JStr(<<120>>)), Ref(JStr(<<32, 120, 32>>)), Ref(JStr(<<32, 32>>)),
                                 JStr(<<115>>), Ref(JNum(5)) >>))
\* {"id": "R2", "kind": "  "}
Req_b == JDict(K_id :> JStr(<<82, 50>>) @@ K_kind :> JStr(<<32, 32>>))
\* {"id": "R1", "kind": "NF", "statement": "s", "references": [{"relativePath": "z"}]}
Req_c ==
  JDict(K_id :> JStr(<<82, 49>>) @@ K_kind :> JStr(<<78, 70>>) @@
        K_statement :> JStr(<<115>>) @@
        K_references :> JList(<<Ref(JStr(<<122>>))>>))
\* {"kind": 7, "title": null}
Req_d == JDict(K_kind :> JNum(7) @@ K_title :> Null)
\* {"id": 10, "kind": " F", "statement": "  ", "story": {"asA": "u"}}
Req_e ==
  JDict(K_id :> JNum(10) @@ K_kind :> JStr(<<32, 70>>) @@
        K_statement :> JStr(<<32, 32>>) @@ K_story :> JDict(K_asA :> JStr(<<117>>)))
\* {"id": 9, "kind": "F", "references": "notalist"}
Req_f == JDict(K_id :> JNum(9) @@ K_kind :> JStr(<<70>>) @@ K_references :> JStr(<<120>>))
\* {"id": "R1", "kind": "F", "story": {"asA": "u", "iWant": "w"},
\*  "references": [{"relativePath": "docB.json"}]}
Req_g ==
  JDict(K_id :> JStr(<<82, 49>>) @@ K_kind :> JStr(<<70>>) @@
        K_story :> JDict(K_asA :> JStr(<<117>>) @@ K_iWant :> JStr(<<119>>)) @@
        K_references :> JList(<<Ref(JStr(<<100, 111, 99, 66, 46, 106, 115, 111, 110>>))>>))

EvalReqs == {Req_a, Req_b, Req_d}

File(name, data) == [name |-> name, data |-> data]

\* docB.json: no sourceDocument.
File_B == File(<<100, 111, 99, 66, 46, 106, 115, 111, 110>>, JDict(K_requirements :> JList(<<Req_a, Req_b>>)))
\* docA.json: no relativePath, a requirement entry that is not a mapping.
File_A ==
  File(<<100, 111, 99, 65, 46, 106, 115, 111, 110>>,
       JDict(K_sourceDocument :> EmptyDict @@
             K_requirements :> JList(<<Req_c, JNum(5)>>)))
\* c.json: blank relativePath, ids missing and numeric.
File_C ==
  File(<<99, 46, 106, 115, 111, 110>>,
       JDict(K_sourceDocument :> Ref(JStr(<<32, 32>>)) @@
             K_requirements :> JList(<<Req_d, Req_e, Req_f>>)))
\* d.json: requirements is not a list.
File_D ==
  File(<<100, 46, 106, 115, 111, 110>>,
       JDict(K_sourceDocument :> JStr(<<121>>) @@ K_requirements :> Req_b))
\* e.json: relativePath " y ", the same requirement id and kind as in docB.json.
File_E ==
  File(<<101, 46, 106, 115, 111, 110>>,
       JDict(K_sourceDocument :> Ref(JStr(<<32, 121, 32>>)) @@
             K_requirements :> JList(<<Req_g>>)))

\* f.json: kind missing, null and empty:
\* [{"id": "R3"}, {"id": "R4", "kind": null}, {"id": "R5", "kind": ""}]
File_F ==
  File(<<102, 46, 106, 115, 111, 110>>,
       JDict(K_requirements :>
               JList(<< JDict(K_id :> JStr(<<82, 51>>)),
                        JDict(K_id :> JStr(<<82, 52>>) @@ K_kind :> Null),
                        JDict(K_id :> JStr(<<82, 53>>) @@ K_kind :> JStr(<<>>)) >>)))

DocCatalogue == {File_A, File_B, File_C, File_D, File_E, File_F}

Section(id, rules) == JDict(K_id :> id @@ K_match :> JList(rules))

Config(secs, policy) ==
  JDict(K_sections :> JList(secs) @@ K_assignmentPolicy :> policy)

\* The three taxonomies the document runs are classified under.
Config_default ==
  JDict(K_sections :> JList(<< Section(JStr(<<83, 49>>), <<LeafKindF>>),
                               Section(JStr(S_BRD99), <<>>) >>))
Config_badFallback ==
  Config(<< Section(JStr(<<83, 49>>), <<LeafKindF>>), Section(JStr(<<83, 50>>), <<LeafKindNF>>) >>,
         JDict(K_unassignedSectionId :> JStr(<<90, 90>>)))
Config_noIds ==
  Config(<< JDict(K_match :> JList(<<LeafEverything>>)) >>,
         JDict(K_unassignedSectionId :> JStr(<<83, 49>>)))

DocConfigs == {Config_default, Config_badFallback, Config_noIds}

\* The entries a taxonomy's sections list is drawn from.
SectionCatalogue ==
  { Section(JStr(<<83, 49>>), <<LeafKindF>>),
    Section(JStr(<<83, 50>>), <<JStr(<<120>>), LeafEverything>>),
    Section(JStr(<<83, 49>>), <<LeafEverything>>),
    Section(JStr(S_BRD99), <<>>),
    Section(JStr(<<>>), <<LeafKindF>>),
    JDict(K_match :> JList(<<LeafEverything>>)),
    Section(JNum(5), <<LeafEverything>>),
    JStr(<<83, 50>>) }

Policies ==
  {Null, JStr(<<83, 49>>)} \cup
  {JDict(f) : f \in
     {<<>>, K_firstMatchWins :> JBool(FALSE), K_firstMatchWins :> JBool(TRUE)}} \cup
  {JDict(K_unassignedSectionId :> u @@ f) :
     u \in {JStr(<<>>), JStr(<<83, 49>>), JStr(S_BRD99), JStr(<<90, 90>>), JNum(5)},
     f \in {<<>>, K_firstMatchWins :> JBool(FALSE)}}

\* Configurations _load_brd_sections rejects.
BrokenConfigs ==
  { JList(<<>>), EmptyDict, JDict(K_sections :> JList(<<>>)),
    JDict(K_sections :> Section(JStr(<<83, 49>>), <<LeafKindF>>)) }

TaxConfigs ==
  {Config(secs, policy) :
     secs \in DistinctSeqsOf(SectionCatalogue, 1, MaxSections), policy \in Policies}
  \cup BrokenConfigs


(***************************************************************************)
(* State                                                                   *)
(***************************************************************************)
VARIABLES
  brd_cfg,                \* the parsed brd_sections.json
  requirement_files,      \* the parsed requirement files, in processing order
  run,                    \* 1: first invocation of build_pdf, 2: a second one
  pc,                     \* position in build_pdf
  sections, valid_section_ids, unassigned_id, assignment_policy,
  file_i, doc_key, reqs, req_i,
  cur_req,                \* the requirement of the last iteration of the build loop
  computed_sid, sid,
  section_index,          \* the Classification Index
  citation_number_by_rel, \* the Bibliography Table
  sec_i, rendered,        \* the render loop: per section, all_items after the sort
  first,                  \* <<outputs of the first invocation>>, once it is over
  ev_req, ev_expr, ev_result, \* one call of _eval_match_expr and its result
  gp_obj, gp_dotted, gp_value,    \* one call of _get_by_dotted_path and its result
  op_op, op_expected, op_result,  \* the call of _eval_op on that result
  fc_req, fc_doc_rel, fc_table, fc_result  \* one call of _format_citations

vars ==
  << brd_cfg, requirement_files, run, pc, sections, valid_section_ids, unassigned_id,
     assignment_policy, file_i, doc_key, reqs, req_i, cur_req, computed_sid, sid,
     section_index,
     citation_number_by_rel, sec_i, rendered, first, ev_req, ev_expr, ev_result,
     gp_obj, gp_dotted, gp_value, op_op, op_expected, op_result,
     fc_req, fc_doc_rel, fc_table, fc_result >>

cfgVars == <<sections, valid_section_ids, unassigned_id, assignment_policy>>
loopVars == <<file_i, doc_key, reqs, req_i, cur_req, computed_sid, sid>>
leafVars == <<gp_obj, gp_dotted, gp_value, op_op, op_expected, op_result>>
citeVars == <<fc_req, fc_doc_rel, fc_table, fc_result>>
evVars == <<ev_req, ev_expr, ev_result, leafVars, citeVars>>

\* The locals of build_pdf before the function has run.
Fresh ==
  /\ sections = <<>> /\ valid_section_ids = {} /\ unassigned_id = <<>>
  /\ assignment_policy = EmptyDict
  /\ file_i = 0 /\ doc_key = <<>> /\ reqs = <<>> /\ req_i = 0
  /\ cur_req = Null /\ computed_sid = <<>> /\ sid = <<>>
  /\ section_index = <<>> /\ citation_number_by_rel = <<>>
  /\ sec_i = 0 /\ rendered = <<>>

\* No call of the path resolver and the match evaluator is under way.
NoLeafCall ==
  /\ gp_obj = Null /\ gp_dotted = Null /\ gp_value = <<>>
  /\ op_op = <<>> /\ op_expected = Null /\ op_result = <<>>

\* No call of _format_citations is under way.
NoCiteCall ==
  /\ fc_req = Null /\ fc_doc_rel = Null /\ fc_table = <<>> /\ fc_result = <<>>

\* Runs over documents: a few taxonomies, every list of distinct documents.
Init ==
  /\ brd_cfg \in DocConfigs
  /\ requirement_files \in DistinctSeqsOf(DocCatalogue, 1, MaxDocs)
  /\ run = 1 /\ pc = "load" /\ first = <<>>
  /\ Fresh
  /\ ev_req = Null /\ ev_expr = Null /\ ev_result = <<>>
  /\ NoLeafCall /\ NoCiteCall

\* Runs over taxonomies: every sections list and policy, one document.
InitTax ==
  /\ brd_cfg \in TaxConfigs
  /\ requirement_files \in {<<File_B>>, <<File_C>>}
  /\ run = 1 /\ pc = "load" /\ first = <<>>
  /\ Fresh
  /\ ev_req = Null /\ ev_expr = Null /\ ev_result = <<>>
  /\ NoLeafCall /\ NoCiteCall

\* One call of the expression evaluator.
InitExpr ==
  /\ brd_cfg = Null /\ requirement_files = <<>>
  /\ run = 1 /\ pc = "idle" /\ first = <<>>
  /\ Fresh
  /\ ev_req \in EvalReqs /\ ev_expr \in Exprs /\ ev_result = <<>>
  /\ NoLeafCall /\ NoCiteCall

(***************************************************************************)
(* build_pdf, lines 465-480: load the taxonomy                             *)
(***************************************************************************)
\* sections: the dict entries of the sections list.
SectionsOf(cfg) == OnlyDicts(_as_list(DictGet(cfg, K_sections)))

\* valid_section_ids: the string ids of the sections.
ValidSectionIds(secs) ==
  {Val(DictGet(secs[i], K_id)) : i \in {j \in 1..Len(secs) : IsStr(DictGet(secs[j], K_id))}}

\* The values unassigned_id may take after line 472.  next(iter(set)) yields
\* whichever member the set's hash order puts first: any member.
UnassignedChoices(cfg, valid) ==
  LET u == _safe_get(cfg, <<K_assignmentPolicy, K_unassignedSectionId>>, JStr(S_BRD99)) IN
  IF IsStr(u) /\ Val(u) \in valid THEN {Val(u)}
  ELSE IF S_BRD99 \in valid THEN {S_BRD99}
  ELSE IF valid # {} THEN valid
  ELSE {S_BRD99}

AssignmentPolicyOf(cfg) ==
  IF IsDict(DictGet(cfg, K_assignmentPolicy)) THEN DictGet(cfg, K_assignmentPolicy)
  ELSE EmptyDict

LoadConfig ==
  /\ pc = "load"
  /\ IF LoadRaises(brd_cfg)
       THEN /\ pc' = "error"
            /\ UNCHANGED <<cfgVars, section_index, file_i>>
       ELSE /\ sections' = SectionsOf(brd_cfg)
            /\ valid_section_ids' = ValidSectionIds(sections')
            /\ unassigned_id' \in UnassignedChoices(brd_cfg, valid_section_ids')
            /\ assignment_policy' = AssignmentPolicyOf(brd_cfg)
            /\ section_index' = [s \in valid_section_ids' |-> <<>>]
            /\ file_i' = 1
            /\ pc' = "open"
  /\ UNCHANGED <<brd_cfg, requirement_files, run, doc_key, reqs, req_i, cur_req,
                 computed_sid, sid,
                 citation_number_by_rel, sec_i, rendered, first, evVars>>

(***************************************************************************)
(* build_pdf, lines 483-524: the build pass                                *)
(***************************************************************************)
\* for path in requirement_files: ... up to the requirement loop
OpenDoc ==
  /\ pc = "open"
  /\ LET file == requirement_files[file_i] IN
     /\ doc_key' = DocKey(file)
     /\ reqs' = FileReqs(file)
     /\ IF reqs' # <<>> THEN /\ pc' = "classify" /\ req_i' = 1 /\ file_i' = file_i
        ELSE IF file_i < Len(requirement_files)
          THEN /\ pc' = "open" /\ req_i' = 0 /\ file_i' = file_i + 1
        ELSE /\ pc' = "bib" /\ req_i' = 0 /\ file_i' = file_i
  /\ UNCHANGED <<brd_cfg, requirement_files, run, cfgVars, cur_req, computed_sid, sid,
                 section_index,
                 citation_number_by_rel, sec_i, rendered, first, evVars>>

\* Mutant of ComputedSid: the assigner remembers its last answer.
ComputedSid_sticky(req) ==
  IF computed_sid # <<>> /\ computed_sid \in valid_section_ids THEN computed_sid
  ELSE _assign_brd_section_id(req, sections, assignment_policy)

\* computed_sid = _assign_brd_section_id(req, sections=sections,
\*                                       assignment_policy=assignment_policy)
ComputedSid(req) == _assign_brd_section_id(req, sections, assignment_policy)

\* for req in reqs: one iteration
ClassifyReq ==
  /\ pc = "classify"
  /\ LET req == reqs[req_i] IN
     /\ cur_req' = req
     /\ computed_sid' = ComputedSid(req)
     /\ sid' = _coerce_brd_section_id(computed_sid', valid_section_ids, unassigned_id)
     /\ section_index' =
          IndexAppend(section_index, sid', KindKey(req), IndexEntry(req, doc_key))
  /\ IF req_i < Len(reqs) THEN /\ req_i' = req_i + 1 /\ pc' = "classify" /\ file_i' = file_i
     ELSE IF file_i < Len(requirement_files)
       THEN /\ req_i' = req_i /\ pc' = "open" /\ file_i' = file_i + 1
     ELSE /\ req_i' = req_i /\ pc' = "bib" /\ file_i' = file_i
  /\ UNCHANGED <<brd_cfg, requirement_files, run, cfgVars, doc_key, reqs,
                 citation_number_by_rel, sec_i, rendered, first, evVars>>

(***************************************************************************)
(* build_pdf, lines 577-594: the bibliography registry                     *)
(***************************************************************************)
BuildBibliography ==
  /\ pc = "bib"
  /\ citation_number_by_rel' = CitationNumbers(section_index)
  /\ IF sections = <<>> THEN pc' = "done" /\ sec_i' = 0
     ELSE pc' = "render" /\ sec_i' = 1
  /\ UNCHANGED <<brd_cfg, requirement_files, run, cfgVars, loopVars, section_index,
                 rendered, first, evVars>>

(***************************************************************************)
(* build_pdf, lines 614-682: one section of the render loop                *)
(***************************************************************************)
\* all_items of a section after the sort of line 644.
SectionItems(index, s) ==
  StableSortById(Flatten(IF s \in DOMAIN index THEN index[s] ELSE <<>>), <<>>)

\* Mutant of IndexAfterRender: the buckets of the section are sorted in place.
IndexAfterRender_sortedInPlace(index, s) ==
  [x \in DOMAIN index |->
     IF x = s
       THEN [k \in 1..Len(index[x]) |->
               [index[x][k] EXCEPT !.items = StableSortById(@, <<>>)]]
       ELSE index[x]]

\* The index after a section is rendered: all_items is a new list (lines
\* 639-642) and the sort of line 644 orders that list, the buckets are only read.
IndexAfterRender(index, s) == index

\* The item's text is rendered with citation markers: a non-blank statement,
\* else a story that yields a sentence (asA and iWant, or soThat).
RendersText(req) ==
  LET statement == DictGet(req, K_statement)
      story == DictGet(req, K_story) IN
  \/ NonBlankStr(statement)
  \/ /\ IsDict(story)
     /\ \/ Truthy(DictGet(story, K_asA)) /\ Truthy(DictGet(story, K_iWant))
        \/ Truthy(DictGet(story, K_soThat))

\* The calls of _format_citations for one item: none, or one and its result.
ItemCitations(item, table) ==
  IF RendersText(item.req)
    THEN <<_format_citations(item.req, JStr(item.docRel), table)>>
    ELSE <<>>

RenderSection ==
  /\ pc = "render"
  /\ LET s == DictGet(sections[sec_i], K_id) IN
     IF ~IsStr(s) \/ Val(s) \notin valid_section_ids
       THEN rendered' = rendered /\ section_index' = section_index
       ELSE LET all_items == SectionItems(section_index, Val(s)) IN
            /\ section_index' = IndexAfterRender(section_index, Val(s))
            /\ rendered' =
              Append(rendered,
                     [sid |-> Val(s), items |-> all_items,
                      citations |-> [n \in 1..Len(all_items) |->
                                       ItemCitations(all_items[n], citation_number_by_rel)]])
  /\ IF sec_i < Len(sections) THEN sec_i' = sec_i + 1 /\ pc' = "render"
     ELSE sec_i' = sec_i /\ pc' = "done"
  /\ UNCHANGED <<brd_cfg, requirement_files, run, cfgVars, loopVars,
                 citation_number_by_rel, first, evVars>>

(***************************************************************************)
(* A second invocation on the same documents and taxonomy, the documents   *)
(* in any order and the requirements of a document in either order.        *)
(***************************************************************************)
Reverse(xs) == [i \in 1..Len(xs) |-> xs[Len(xs) + 1 - i]]

ReqsReversed(file) ==
  IF IsList(DictGet(file.data, K_requirements))
    THEN [file EXCEPT !.data =
            JDict([Val(@) EXCEPT ![K_requirements] = JList(Reverse(Val(@)))])]
    ELSE file

Outputs ==
  [ section_index |-> section_index,
    citation_number_by_rel |-> citation_number_by_rel,
    rendered |-> rendered,
    unassigned_id |-> unassigned_id,
    requirement_files |-> requirement_files ]

Rerun ==
  /\ pc = "done" /\ run = 1
  /\ first' = <<Outputs>>
  /\ \E p \in Permutations(1..Len(requirement_files)),
        rev \in [1..Len(requirement_files) -> BOOLEAN] :
       requirement_files' =
         [i \in 1..Len(requirement_files) |->
            IF rev[i] THEN ReqsReversed(requirement_files[p[i]])
            ELSE requirement_files[p[i]]]
  /\ run' = 2 /\ pc' = "load"
  /\ sections' = <<>> /\ valid_section_ids' = {} /\ unassigned_id' = <<>>
  /\ assignment_policy' = EmptyDict
  /\ file_i' = 0 /\ doc_key' = <<>> /\ reqs' = <<>> /\ req_i' = 0
  /\ cur_req' = Null /\ computed_sid' = <<>> /\ sid' = <<>>
  /\ section_index' = <<>> /\ citation_number_by_rel' = <<>>
  /\ sec_i' = 0 /\ rendered' = <<>>
  /\ UNCHANGED <<brd_cfg, evVars>>

Next ==
  \/ LoadConfig
  \/ OpenDoc
  \/ ClassifyReq
  \/ BuildBibliography
  \/ RenderSection
  \/ Rerun

Spec == Init /\ [][Next]_vars

SpecTax == InitTax /\ [][Next]_vars

(***************************************************************************)
(* One call of _eval_match_expr                                            *)
(***************************************************************************)
Evaluate ==
  /\ pc = "idle" /\ ev_result = <<>>
  /\ ev_result' = <<_eval_match_expr(ev_req, ev_expr)>>
  /\ UNCHANGED <<brd_cfg, requirement_files, run, pc, cfgVars, loopVars, section_index,
                 citation_number_by_rel, sec_i, rendered, first, ev_req, ev_expr,
                 leafVars, citeVars>>

NextExpr == Evaluate

SpecExpr == InitExpr /\ [][NextExpr]_vars


(***************************************************************************)
(* One call of _format_citations, as the render loop makes it              *)
(***************************************************************************)
MaxRefs == 3

\* The entries a references list is made of: b, " b ", a, c, a blank path, an
\* entry that is not a mapping, a path that is not a string.
CiteRefEntries ==
  { Ref(JStr(<<98>>)), Ref(JStr(<<32, 98, 32>>)), Ref(JStr(<<97>>)), Ref(JStr(<<99>>)),
    Ref(JStr(<<32, 32>>)), JStr(<<115>>), Ref(JNum(5)) }

\* Requirements with every references list of up to MaxRefs entries, one whose
\* references are not a list and one without references.
CiteReqs ==
  {JDict(K_id :> JStr(<<82, 49>>) @@ K_references :> JList(refs)) :
     refs \in SeqsOf(CiteRefEntries, 0, MaxRefs)}
  \cup {JDict(K_id :> JStr(<<82, 49>>) @@ K_references :> JStr(<<98>>)), JDict(K_id :> JStr(<<82, 49>>))}

\* Origin document keys: doc_key is a stripped relativePath or a file name.
CiteDocKeys == {JStr(<<97>>), JStr(<<100>>), JStr(<<100, 111, 99, 66, 46, 106, 115, 111, 110>>)}

\* The paths that other requirements of the run bring into the table.
CiteOtherPaths == {{}, {<<48>>}, {<<97, 48>>}, {<<48>>, <<97, 48>>}}

\* citation_number_by_rel for a set of paths
TableOf(paths) ==
  LET bibliography_relpaths == SortedStrs(paths) IN
  [rel \in paths |->
     CHOOSE idx \in 1..Len(bibliography_relpaths) : bibliography_relpaths[idx] = rel]

InitCite ==
  /\ brd_cfg = Null /\ requirement_files = <<>>
  /\ run = 1 /\ pc = "cite" /\ first = <<>>
  /\ Fresh
  /\ ev_req = Null /\ ev_expr = Null /\ ev_result = <<>>
  /\ NoLeafCall
  /\ fc_req \in CiteReqs /\ fc_doc_rel \in CiteDocKeys
  /\ \E others \in CiteOtherPaths :
       fc_table = TableOf(RefPaths(fc_req) \cup {Strip(Val(fc_doc_rel))} \cup others)
  /\ fc_result = <<>>

FormatCitations ==
  /\ pc = "cite" /\ fc_result = <<>>
  /\ fc_result' = <<_format_citations(fc_req, fc_doc_rel, fc_table)>>
  /\ pc' = "cited"
  /\ UNCHANGED <<brd_cfg, requirement_files, run, cfgVars, loopVars, section_index,
                 citation_number_by_rel, sec_i, rendered, first, ev_req, ev_expr, ev_result,
                 leafVars, fc_req, fc_doc_rel, fc_table>>

NextCite == FormatCitations

SpecCite == InitCite /\ [][NextCite]_vars

(***************************************************************************)
(* One call of _get_by_dotted_path and of _eval_op on its result, as a     *)
(* leaf of a match expression makes them (lines 252-253)                   *)
(***************************************************************************)
\* {"title": "Login"}
Rec_title == JDict(K_title :> JStr(<<76, 111, 103, 105, 110>>))
\* {"title": "Login", "statement": "Users must reset passwords", "tags": ["Alpha", 5, "beta"],
\*  "reviewer": null, "done": false, "n": 1, "story": {"asA": "u"}}
Rec_login ==
  JDict(K_title :> JStr(<<76, 111, 103, 105, 110>>) @@ <<115, 116, 97, 116, 101, 109, 101, 110, 116>> :> JStr(<<85, 115, 101, 114, 115, 32, 109, 117, 115, 116, 32, 114, 101, 115, 101, 116, 32, 112, 97, 115, 115, 119, 111, 114, 100, 115>>) @@
        <<116, 97, 103, 115>> :> JList(<<JStr(<<65, 108, 112, 104, 97>>), JNum(5), JStr(<<98, 101, 116, 97>>)>>) @@
        <<114, 101, 118, 105, 101, 119, 101, 114>> :> Null @@ <<100, 111, 110, 101>> :> JBool(FALSE) @@ <<110>> :> JNum(1) @@
        <<115, 116, 111, 114, 121>> :> JDict(<<97, 115, 65>> :> JStr(<<117>>)))
\* {"requirement": {"kind": "F"}, "kind": "NF", " kind": "X", "": "e"}
Rec_nested ==
  JDict(S_requirement :> JDict(K_kind :> JStr(<<70>>)) @@ K_kind :> JStr(<<78, 70>>) @@
        <<32, 107, 105, 110, 100>> :> JStr(<<88>>) @@ <<>> :> JStr(<<101>>))

LeafRecords == {Rec_title, Rec_login, Rec_nested}

\* Paths from the record root, and each of them behind "requirement.".
RootPaths ==
  { <<116, 105, 116, 108, 101>>, <<115, 116, 97, 116, 101, 109, 101, 110, 116>>, <<116, 97, 103, 115>>, <<114, 101, 118, 105, 101, 119, 101, 114>>, <<100, 111, 110, 101>>, <<110>>, <<111, 119, 110, 101, 114>>, <<115, 116, 111, 114, 121>>,
    <<115, 116, 111, 114, 121, 46, 97, 115, 65>>, <<115, 116, 111, 114, 121, 46, 120>>, <<116, 105, 116, 108, 101, 46, 120>>, <<116, 97, 103, 115, 46, 48>>, <<107, 105, 110, 100>>, <<32, 107, 105, 110, 100>>, <<107, 105, 110, 100, 32>>,
    S_requirement, <<114, 101, 113, 117, 105, 114, 101, 109, 101, 110, 116, 46, 107, 105, 110, 100>>, <<>>, <<32, 32>>,
    \* "requirement " and " requirement": the bare path with a blank around it
    S_requirement \o <<32>>, <<32>> \o S_requirement }

LeafPaths ==
  {JStr(path) : path \in RootPaths}
  \cup {JStr(S_requirement_dot \o path) : path \in RootPaths}
  \cup {Null, JNum(5), JList(<<JStr(K_title)>>)}

\* The five operators and four tags that are none of them.
LeafOps ==
  { OP_exists, OP_eq, OP_in, OP_contains, OP_containsText,
    <<114, 101, 103, 101, 120>>, <<69, 88, 73, 83, 84, 83>>, <<>>, <<101, 113, 32>> }

LeafExpected ==
  { JBool(TRUE), JBool(FALSE), Null, JNum(1), JNum(5),
    JStr(<<82, 69, 83, 69, 84>>), JStr(<<108, 111, 103, 105, 110>>), JStr(<<76, 111, 103, 105, 110>>), JStr(<<65, 76, 80, 72, 65>>), JStr(<<>>),
    JList(<<JStr(<<76, 111, 103, 105, 110>>), JNum(1)>>) }

InitLeaf ==
  /\ brd_cfg = Null /\ requirement_files = <<>>
  /\ run = 1 /\ pc = "leaf" /\ first = <<>>
  /\ Fresh
  /\ ev_req = Null /\ ev_expr = Null /\ ev_result = <<>>
  /\ gp_obj \in LeafRecords /\ gp_dotted \in LeafPaths /\ gp_value = <<>>
  /\ op_op \in LeafOps /\ op_expected \in LeafExpected /\ op_result = <<>>
  /\ NoCiteCall

\* value = _get_by_dotted_path(requirement, field)
Resolve ==
  /\ pc = "leaf"
  /\ gp_value' = <<_get_by_dotted_path(gp_obj, gp_dotted)>>
  /\ pc' = "resolved"
  /\ UNCHANGED <<brd_cfg, requirement_files, run, cfgVars, loopVars, section_index,
                 citation_number_by_rel, sec_i, rendered, first, ev_req, ev_expr, ev_result,
                 gp_obj, gp_dotted, op_op, op_expected, op_result, citeVars>>

\* return _eval_op(value, op, expected)
ApplyOp ==
  /\ pc = "resolved"
  /\ op_result' = <<_eval_op(gp_value[1], op_op, op_expected)>>
  /\ pc' = "applied"
  /\ UNCHANGED <<brd_cfg, requirement_files, run, cfgVars, loopVars, section_index,
                 citation_number_by_rel, sec_i, rendered, first, ev_req, ev_expr, ev_result,
                 gp_obj, gp_dotted, gp_value, op_op, op_expected, citeVars>>

NextLeaf == Resolve \/ ApplyOp

SpecLeaf == InitLeaf /\ [][NextLeaf]_vars

(***************************************************************************)
(* Properties                                                              *)
(***************************************************************************)
\* The build pass is over.
BuildOver == pc \in {"bib", "render", "done"}

\* Where the index holds items: (section id, kind position, item position).
IndexPositions(index) ==
  UNION {UNION {{<<s, k, n>> : n \in 1..Len(index[s][k].items)} :
                  k \in 1..Len(index[s])} :
           s \in DOMAIN index}

\* Where the input holds requirement records: (file position, record position).
InputPositions(files) ==
  UNION {{<<f, j>> : j \in 1..Len(FileReqs(files[f]))} : f \in 1..Len(files)}

InputItem(files, pos) ==
  [req |-> FileReqs(files[pos[1]])[pos[2]], docRel |-> DocKey(files[pos[1]])]

\* C1 -- Total coverage: after the build pass the index holds every input
\* requirement record (every mapping of a requirements list, with its document
\* key) as often as the input does, no bucket key is repeated, and the sizes of
\* the buckets add up to the number of input records.
C1_TotalCoverage ==
  BuildOver =>
    /\ Cardinality(IndexPositions(section_index))
         = Cardinality(InputPositions(requirement_files))
    /\ \A pos \in InputPositions(requirement_files) :
         LET item == InputItem(requirement_files, pos) IN
         Cardinality({ip \in IndexPositions(section_index) :
                        section_index[ip[1]][ip[2]].items[ip[3]] = item})
           = Cardinality({jp \in InputPositions(requirement_files) :
                            InputItem(requirement_files, jp) = item})
    /\ \A s \in DOMAIN section_index :
         \A k1, k2 \in 1..Len(section_index[s]) :
           section_index[s][k1].kind = section_index[s][k2].kind => k1 = k2

\* Two documents, three records or more in two buckets or more, and an entry of
\* a requirements list that is not a mapping and is left out.
C1_Witness ==
  /\ pc = "done" /\ run = 1
  /\ Cardinality(IndexPositions(section_index)) >= 3
  /\ Cardinality({<<ip[1], ip[2]>> : ip \in IndexPositions(section_index)}) >= 2
  /\ \E f \in 1..Len(requirement_files) :
       Len(_as_list(DictGet(requirement_files[f].data, K_requirements)))
         > Len(FileReqs(requirement_files[f]))


\* The build loop has classified cur_req; computed_sid and sid are its results.
Classified == Tag(cur_req) = "dict"

\* The match list of a section has an entry that is true of the requirement.
SectionMatches(section, requirement) ==
  /\ IsList(DictGet(section, K_match))
  /\ \E i \in 1..Len(Val(DictGet(section, K_match))) :
       _eval_match_expr(requirement, Val(DictGet(section, K_match))[i])

\* The policy's unassignedSectionId as the configuration gives it (null if none).
ConfiguredFallback ==
  DictGet(AssignmentPolicyOf(brd_cfg), K_unassignedSectionId)

\* C2 -- Classification never produces an undefined section: every section id
\* under which the index stores a requirement is one of the taxonomy's valid
\* section ids.
C2_StoredSectionIsValid ==
  \A s \in DOMAIN section_index :
    section_index[s] # <<>> => s \in valid_section_ids

\* C3 -- Fallback guarantee: a requirement that no section matches is stored
\* under the policy's unassignedSectionId whenever that id is a valid section id.
C3_FallbackIsConfiguredId ==
  ( /\ Classified
    /\ \A i \in 1..Len(sections) : ~SectionMatches(sections[i], cur_req)
    /\ IsStr(ConfiguredFallback)
    /\ Val(ConfiguredFallback) \in valid_section_ids )
  => sid = Val(ConfiguredFallback)

\* firstMatchWins is true or absent.
FirstMatchWinsSet ==
  \/ K_firstMatchWins \notin DOMAIN Val(assignment_policy)
  \/ DictGet(assignment_policy, K_firstMatchWins) = JBool(TRUE)

\* The section has an id the assigner can return: a non-empty string.
HasUsableId(section) ==
  IsStr(DictGet(section, K_id)) /\ Val(DictGet(section, K_id)) # <<>>

\* The positions of the sections that match the requirement, in taxonomy order.
MatchingSections(requirement) ==
  {i \in 1..Len(sections) : SectionMatches(sections[i], requirement)}

Earliest(S) == CHOOSE i \in S : \A j \in S : i <= j

\* C4 as stated -- with firstMatchWins true or absent the assigner returns the
\* id of the earliest section, in taxonomy order, whose match list has a true
\* entry (looked at only where the taxonomy has a valid section id at all).
C4_EarliestMatchingSection ==
  ( /\ Classified /\ FirstMatchWinsSet
    /\ valid_section_ids # {}
    /\ MatchingSections(cur_req) # {} ) =>
    LET first_id == DictGet(sections[Earliest(MatchingSections(cur_req))], K_id) IN
    IsStr(first_id) /\ computed_sid = Val(first_id)

\* C4 amended -- with firstMatchWins true or absent the assigner returns the id
\* of the earliest section, in taxonomy order, that has a non-empty string id
\* and whose match list has a true entry; sections without such an id are
\* passed over.
C4_EarliestMatchingSectionWithId ==
  LET usable == {i \in MatchingSections(cur_req) : HasUsableId(sections[i])} IN
  (Classified /\ FirstMatchWinsSet /\ usable # {}) =>
    computed_sid = Val(DictGet(sections[Earliest(usable)], K_id))

\* Two sections that both match every requirement: the first one is returned.
C4_Witness ==
  /\ Classified /\ FirstMatchWinsSet
  /\ Len(sections) = 2
  /\ \A i \in 1..2 : HasUsableId(sections[i]) /\ SectionMatches(sections[i], cur_req)
  /\ DictGet(sections[1], K_id) # DictGet(sections[2], K_id)
  /\ computed_sid = Val(DictGet(sections[1], K_id))


\* _eval_match_expr has returned for ev_expr.
Evaluated == ev_result # <<>>

\* The node is read as an `any` combinator / as an `all` combinator / as a leaf.
IsAnyNode(expr) == IsDict(expr) /\ K_any \in DOMAIN Val(expr)
IsAllNode(expr) == IsDict(expr) /\ K_any \notin DOMAIN Val(expr) /\ K_all \in DOMAIN Val(expr)
IsLeafNode(expr) == IsDict(expr) /\ K_any \notin DOMAIN Val(expr) /\ K_all \notin DOMAIN Val(expr)

\* C5 -- An `all` combinator whose body is an empty list or is not a list
\* evaluates to false.
C5_EmptyAllIsFalse ==
  ( /\ Evaluated /\ IsAllNode(ev_expr)
    /\ (~IsList(DictGet(ev_expr, K_all)) \/ Val(DictGet(ev_expr, K_all)) = <<>>) )
  => ev_result = <<FALSE>>

\* C6 -- An `any` combinator is true iff at least one child evaluates to true;
\* with an empty list or a body that is not a list it is false.
C6_AnyIsDisjunction ==
  (Evaluated /\ IsAnyNode(ev_expr)) =>
    LET body == DictGet(ev_expr, K_any) IN
    /\ ~IsList(body) => ev_result = <<FALSE>>
    /\ IsList(body) =>
         ev_result[1] = (\E i \in 1..Len(Val(body)) : _eval_match_expr(ev_req, Val(body)[i]))
    /\ (IsList(body) /\ Val(body) = <<>>) => ev_result = <<FALSE>>

\* An `any` of two children, the first false and the second true, is true.
C6_Witness ==
  /\ Evaluated /\ IsAnyNode(ev_expr) /\ IsList(DictGet(ev_expr, K_any))
  /\ Len(Val(DictGet(ev_expr, K_any))) = 2
  /\ ~_eval_match_expr(ev_req, Val(DictGet(ev_expr, K_any))[1])
  /\ _eval_match_expr(ev_req, Val(DictGet(ev_expr, K_any))[2])
  /\ ev_result = <<TRUE>>

\* The node is neither a combinator nor a well-formed leaf.
IsMalformedNode(expr) ==
  \/ ~IsDict(expr)
  \/ /\ IsLeafNode(expr)
     /\ (~IsStr(DictGet(expr, K_field)) \/ ~IsStr(DictGet(expr, K_op)))

\* C7 -- Fail closed: a node that is neither a combinator nor a well-formed
\* leaf evaluates to false, and every evaluation returns a boolean.
C7_MalformedIsFalse ==
  Evaluated =>
    /\ ev_result[1] \in BOOLEAN
    /\ IsMalformedNode(ev_expr) => ev_result = <<FALSE>>
    /\ IsAnyNode(ev_expr) \/ IsAllNode(ev_expr) =>
         LET body == DictGet(ev_expr, IF IsAnyNode(ev_expr) THEN K_any ELSE K_all) IN
         (IsList(body) /\ Val(body) # <<>> /\ \A i \in 1..Len(Val(body)) : IsMalformedNode(Val(body)[i]))
           => ev_result = <<FALSE>>

\* A leaf with a field and no op, whose field is present in the requirement,
\* has been evaluated.
C7_Witness ==
  /\ Evaluated /\ IsLeafNode(ev_expr)
  /\ IsStr(DictGet(ev_expr, K_field)) /\ K_op \notin DOMAIN Val(ev_expr)
  /\ Tag(_get_by_dotted_path(ev_req, DictGet(ev_expr, K_field))) # "null"
  /\ ev_result = <<FALSE>>


\* The Bibliography Table is built.
BibliographyBuilt == pc \in {"render", "done"}

\* The distinct reference paths of the input, compared after trimming as the
\* table's keys are: every requirement's non-blank references[].relativePath
\* and every requirement's origin document key.
InputPaths(files) ==
  UNION {RefPaths(InputItem(files, pos).req) \cup {Strip(InputItem(files, pos).docRel)} :
           pos \in InputPositions(files)}

\* C8 -- The Bibliography Table is a bijection between the distinct reference
\* paths and 1..N, N the number of distinct paths, and it is strictly
\* increasing in lexicographic path order.
C8_BibliographyIsBijection ==
  BibliographyBuilt =>
    LET P == InputPaths(requirement_files) IN
    /\ DOMAIN citation_number_by_rel = P
    /\ {citation_number_by_rel[x] : x \in P} = 1..Cardinality(P)
    /\ \A x, y \in P : StrLess(x, y) => citation_number_by_rel[x] < citation_number_by_rel[y]

\* Four paths or more, among them a document key and a reference path given
\* twice, once with blanks around it.
C8_Witness ==
  /\ pc = "done"
  /\ Cardinality(DOMAIN citation_number_by_rel) >= 4
  /\ \E pos \in InputPositions(requirement_files) :
       LET item == InputItem(requirement_files, pos)
           refs == DictGet(item.req, K_references) IN
       /\ item.docRel \in DOMAIN citation_number_by_rel
       /\ IsList(refs)
       /\ \E i, j \in 1..Len(Val(refs)) :
            /\ IsDict(Val(refs)[i]) /\ IsDict(Val(refs)[j])
            /\ NonBlankStr(DictGet(Val(refs)[i], K_relativePath))
            /\ NonBlankStr(DictGet(Val(refs)[j], K_relativePath))
            /\ DictGet(Val(refs)[i], K_relativePath) # DictGet(Val(refs)[j], K_relativePath)
            /\ Strip(Val(DictGet(Val(refs)[i], K_relativePath)))
                 = Strip(Val(DictGet(Val(refs)[j], K_relativePath)))

\* C9 -- Citation numbering is order-independent: a second run over the same
\* documents in another order, the requirements of a document in another
\* order, gives every path the number it had in the first run.
C9_NumberingIsOrderIndependent ==
  (run = 2 /\ BibliographyBuilt) =>
    citation_number_by_rel = first[1].citation_number_by_rel

\* docB.json was processed before docA.json in the first run and after it in
\* the second: docA.json is 1 and docB.json is 2 in both.
C9_Witness ==
  /\ run = 2 /\ pc = "done"
  /\ Len(requirement_files) = 2
  /\ first[1].requirement_files[1].name = <<100, 111, 99, 66, 46, 106, 115, 111, 110>>
  /\ first[1].requirement_files[2].name = <<100, 111, 99, 65, 46, 106, 115, 111, 110>>
  /\ requirement_files[1].name = <<100, 111, 99, 65, 46, 106, 115, 111, 110>>
  /\ citation_number_by_rel[<<100, 111, 99, 65, 46, 106, 115, 111, 110>>] = 1
  /\ citation_number_by_rel[<<100, 111, 99, 66, 46, 106, 115, 111, 110>>] = 2
  /\ first[1].citation_number_by_rel[<<100, 111, 99, 65, 46, 106, 115, 111, 110>>] = 1

\* The multiset of the members of a sequence.
SeqToBag(xs) ==
  [x \in {xs[i] : i \in 1..Len(xs)} |-> Cardinality({i \in 1..Len(xs) : xs[i] = x})]

KindsOf(index, s) == {index[s][k].kind : k \in 1..Len(index[s])}

Bucket(index, s, kind) ==
  LET ks == {k \in 1..Len(index[s]) : index[s][k].kind = kind} IN
  IF ks = {} THEN <<>> ELSE index[s][CHOOSE k \in ks : TRUE].items

\* Every (section, kind) bucket holds the same entries in both indexes.
SameBuckets(i1, i2) ==
  /\ DOMAIN i1 = DOMAIN i2
  /\ \A s \in DOMAIN i1 :
       /\ KindsOf(i1, s) = KindsOf(i2, s)
       /\ \A kind \in KindsOf(i1, s) :
            SeqToBag(Bucket(i1, s, kind)) = SeqToBag(Bucket(i2, s, kind))

\* The second run processes the documents of the first, each unchanged, in
\* some order.
SameDocumentsShuffled ==
  \E p \in Permutations(1..Len(requirement_files)) :
    \A i \in 1..Len(requirement_files) :
      requirement_files[i] = first[1].requirement_files[p[i]]

\* C10 -- Determinism under shuffled document order: two runs over the same
\* documents in two orders give the same buckets and, per section, the same
\* sequence after the stable sort by id.  (Stated for two runs that chose the
\* same fallback section, so that only the document order differs.)
C10_SameIndexInAnyDocumentOrder ==
  ( /\ run = 2 /\ pc = "done"
    /\ SameDocumentsShuffled
    /\ unassigned_id = first[1].unassigned_id )
  => /\ SameBuckets(section_index, first[1].section_index)
     /\ rendered = first[1].rendered

\* C11 -- Idempotence: a second run on the same taxonomy, policy and documents
\* in the same order gives the same Classification Index (section ids, kind
\* tags, entries and their order) and the same Bibliography Table, also when
\* the policy's fallback id is invalid and a substitute id is chosen.
C11_IdempotentRerun ==
  ( /\ run = 2 /\ pc = "done"
    /\ requirement_files = first[1].requirement_files )
  => /\ section_index = first[1].section_index
     /\ citation_number_by_rel = first[1].citation_number_by_rel

\* _format_citations has returned.
Cited == fc_result # <<>>

\* The markers of a set of numbers in ascending order, each number once.
RECURSIVE AscendingMarkers(_)
AscendingMarkers(N) ==
  IF N = {} THEN <<>>
  ELSE LET least == CHOOSE n \in N : \A other \in N : n <= other IN
       <<91>> \o Decimal(least) \o <<93>> \o AscendingMarkers(N \ {least})

\* C12 -- The citation markers of a requirement and its origin key are exactly
\* the citation numbers of the requirement's own reference paths and of the
\* origin key, each number once, as bracketed markers in ascending order,
\* whatever the order and repetition of the entries of the references list.
C12_MarkersAscendingOnce ==
  Cited =>
    LET paths == RefPaths(fc_req) \cup {Strip(Val(fc_doc_rel))}
    IN fc_result[1] = AscendingMarkers({fc_table[rel] : rel \in paths})

\* [1][3]: three reference entries that name one path, twice the same and
\* once with blanks around it, met before the origin key but numbered after it.
C12_Witness ==
  /\ Cited
  /\ fc_result[1] = <<91, 49, 93, 91, 51, 93>>
  /\ IsList(DictGet(fc_req, K_references))
  /\ Len(Val(DictGet(fc_req, K_references))) = 3
  /\ Cardinality({Val(DictGet(fc_req, K_references))[i] : i \in 1..3}) = 2
  /\ Cardinality(RefPaths(fc_req)) = 1
  /\ \A rel \in RefPaths(fc_req) : fc_table[rel] = 3
  /\ fc_table[Strip(Val(fc_doc_rel))] = 1

\* _get_by_dotted_path has returned; _eval_op has returned.
Resolved == gp_value # <<>>
Applied == op_result # <<>>

\* The path is a string that is not blank.
IsFieldPath(dotted) == IsStr(dotted) /\ Strip(Val(dotted)) # <<>>

\* The keys a path names from the record root.
FieldParts(dotted) ==
  LET path == Strip(Val(dotted)) IN
  IF StartsWith(path, S_requirement_dot)
    THEN SplitDots(SubSeq(path, Len(S_requirement_dot) + 1, Len(path)), <<>>)
    ELSE SplitDots(path, <<>>)

\* What the record holds after the first k keys, where it holds them all.
RECURSIVE After(_, _, _)
After(obj, parts, k) ==
  IF k = 0 THEN obj ELSE Val(After(obj, parts, k - 1))[parts[k]]

\* The first k keys are held: each is a key of the mapping reached before it.
RECURSIVE Held(_, _, _)
Held(obj, parts, k) ==
  \/ k = 0
  \/ /\ Held(obj, parts, k - 1)
     /\ IsDict(After(obj, parts, k - 1))
     /\ parts[k] \in DOMAIN Val(After(obj, parts, k - 1))

\* The field the path names is present in the record, whatever it holds.
FieldPresent(obj, dotted) ==
  /\ IsFieldPath(dotted)
  /\ \/ Strip(Val(dotted)) = S_requirement
     \/ Held(obj, FieldParts(dotted), Len(FieldParts(dotted)))

\* What the present field holds.
FieldHolds(obj, dotted) ==
  IF Strip(Val(dotted)) = S_requirement THEN obj
  ELSE After(obj, FieldParts(dotted), Len(FieldParts(dotted)))

\* The not-found result of the resolver: what it gives for a key no record has.
NotFound == _get_by_dotted_path(Rec_title, JStr(<<111, 119, 110, 101, 114>>))

\* C13 -- The path resolver tells a field that is absent from a field that is
\* present and holds null or false: resolving the path of such a field does
\* not give the not-found result, and an exists match takes it as present.
C13_NullOrFalseIsPresent ==
  ( /\ Applied
    /\ FieldPresent(gp_obj, gp_dotted)
    /\ FieldHolds(gp_obj, gp_dotted) \in {Null, JBool(FALSE)} )
  => /\ gp_value[1] # NotFound
     /\ (op_op = OP_exists /\ op_expected = JBool(TRUE)) => op_result = <<TRUE>>

\* Some key of the path is looked up in a value that is not a mapping.
StepsIntoNonMapping(obj, dotted) ==
  /\ IsFieldPath(dotted) /\ Strip(Val(dotted)) # S_requirement
  /\ \E k \in 1..Len(FieldParts(dotted)) :
       /\ Held(obj, FieldParts(dotted), k - 1)
       /\ ~IsDict(After(obj, FieldParts(dotted), k - 1))

\* C14 -- Path resolution is total: every record and path resolve to a value
\* or to absent; a path that steps into a value that is not a mapping, an empty
\* path and a path that is not a string resolve to absent; a present field
\* resolves to what it holds.
C14_ResolutionIsTotal ==
  Resolved =>
    /\ Tag(gp_value[1]) \in {"null", "bool", "num", "str", "list", "dict"}
    /\ ~IsFieldPath(gp_dotted) => gp_value[1] = Null
    /\ StepsIntoNonMapping(gp_obj, gp_dotted) => gp_value[1] = Null
    /\ FieldPresent(gp_obj, gp_dotted) => gp_value[1] = FieldHolds(gp_obj, gp_dotted)

\* story.asA is found, and title.x, whose first key holds a string, is absent.
C14_Witness ==
  /\ Resolved
  /\ StepsIntoNonMapping(gp_obj, gp_dotted)
  /\ Len(FieldParts(gp_dotted)) = 2
  /\ IsStr(After(gp_obj, FieldParts(gp_dotted), 1))
  /\ gp_value = <<Null>>
  /\ _get_by_dotted_path(gp_obj, JStr(<<115, 116, 111, 114, 121, 46, 97, 115, 65>>)) = JStr(<<117>>)

\* The path behind the prefix "requirement.".
Prefixed(dotted) == JStr(S_requirement_dot \o Val(dotted))

\* C15 as stated -- for every record and every path p, requirement.p resolves
\* to what p resolves to, and the bare path requirement gives the whole record.
C15_PrefixedIsSame ==
  (Resolved /\ IsStr(gp_dotted)) =>
    /\ _get_by_dotted_path(gp_obj, Prefixed(gp_dotted)) = gp_value[1]
    /\ Val(gp_dotted) = S_requirement => gp_value[1] = gp_obj

\* The path is a plain one: not empty, no white space in front, and its
\* trimmed text is neither "requirement" nor itself behind the prefix.
IsPlainPath(dotted) ==
  /\ IsStr(dotted) /\ Val(dotted) # <<>> /\ ~IsSpace(Val(dotted)[1])
  /\ Strip(Val(dotted)) # S_requirement
  /\ ~StartsWith(Strip(Val(dotted)), S_requirement_dot)

\* C15 amended -- for every record and every plain path p, requirement.p
\* resolves to what p resolves to: the path is trimmed and one prefix is
\* stripped, once; a path whose trimmed text is the bare requirement gives
\* the whole record.
C15_PrefixedPlainIsSame ==
  Resolved =>
    /\ IsPlainPath(gp_dotted) =>
         _get_by_dotted_path(gp_obj, Prefixed(gp_dotted)) = gp_value[1]
    /\ (IsStr(gp_dotted) /\ Strip(Val(gp_dotted)) = S_requirement) => gp_value[1] = gp_obj

\* story.asA and requirement.story.asA both resolve to "u".
C15_Witness ==
  /\ Resolved /\ IsPlainPath(gp_dotted)
  /\ Len(FieldParts(gp_dotted)) = 2
  /\ gp_value = <<JStr(<<117>>)>>
  /\ _get_by_dotted_path(gp_obj, Prefixed(gp_dotted)) = JStr(<<117>>)

\* C16 -- The exists operator is true iff the field is present when the
\* expected value is not a boolean, and iff presence equals the expected value
\* when it is one: exists false matches exactly the requirements in which the
\* field is absent.
C16_ExistsIsPresence ==
  (Applied /\ IsFieldPath(gp_dotted) /\ op_op = OP_exists) =>
    op_result[1] = IF IsBool(op_expected)
                     THEN FieldPresent(gp_obj, gp_dotted) = Val(op_expected)
                     ELSE FieldPresent(gp_obj, gp_dotted)

\* needle is in hay when the case of the letters is set aside.
FoldCase(c) == IF c \in 65..90 THEN c + 32 ELSE c
InIgnoringCase(needle, hay) ==
  \E at \in 0..(Len(hay) - Len(needle)) :
    \A i \in 1..Len(needle) : FoldCase(hay[at + i]) = FoldCase(needle[i])

\* C17 -- containsText is a test that sets case aside: of a string value it is
\* true iff the expected string is in it, of a sequence iff it is in some
\* string member, and it is false of every other value (and for an expected
\* value that is not a string).
C17_ContainsTextIgnoresCase ==
  (Applied /\ op_op = OP_containsText) =>
    LET value == gp_value[1] IN
    op_result[1] =
      ( /\ IsStr(op_expected)
        /\ \/ IsStr(value) /\ InIgnoringCase(Val(op_expected), Val(value))
           \/ /\ IsList(value)
              /\ \E i \in 1..Len(Val(value)) :
                   /\ IsStr(Val(value)[i])
                   /\ InIgnoringCase(Val(op_expected), Val(Val(value)[i])) )

\* "Users must reset passwords" matches RESET, and ["Alpha", 5, "beta"]
\* matches ALPHA.
C17_Witness ==
  /\ Applied /\ op_op = OP_containsText
  /\ op_expected = JStr(<<82, 69, 83, 69, 84>>)
  /\ gp_value = <<JStr(<<85, 115, 101, 114, 115, 32, 109, 117, 115, 116, 32, 114, 101, 115, 101, 116, 32, 112, 97, 115, 115, 119, 111, 114, 100, 115>>)>>
  /\ op_result = <<TRUE>>
  /\ _eval_op(JList(<<JStr(<<65, 108, 112, 104, 97>>), JNum(5), JStr(<<98, 101, 116, 97>>)>>), OP_containsText, JStr(<<65, 76, 80, 72, 65>>))
  /\ ~_eval_op(JNum(5), OP_containsText, JStr(<<>>))

\* C18 -- Unknown operators fail closed: for every operator tag other than
\* exists, eq, in, contains and containsText the match evaluator gives false,
\* whatever the resolved and the expected value.
C18_UnknownOpIsFalse ==
  (Applied /\ op_op \notin {OP_exists, OP_eq, OP_in, OP_contains, OP_containsText}) =>
    op_result = <<FALSE>>

\* EXISTS, in capitals, on a present title with expected true: false, where
\* exists is true.
C18_Witness ==
  /\ Applied /\ op_op = <<69, 88, 73, 83, 84, 83>>
  /\ op_expected = JBool(TRUE)
  /\ gp_value = <<JStr(<<76, 111, 103, 105, 110>>)>>
  /\ op_result = <<FALSE>>
  /\ _eval_op(gp_value[1], OP_exists, op_expected)

\* C19 -- A taxonomy whose sections entry is not a list, or that has no valid
\* section id, is a hard error: the run stops with an error and no requirement
\* is classified into the index.
C19_NoValidIdIsHardError ==
  ( /\ pc # "load"
    /\ \/ ~IsDict(brd_cfg)
       \/ ~IsList(DictGet(brd_cfg, K_sections))
       \/ ValidSectionIds(SectionsOf(brd_cfg)) = {} )
  => /\ pc = "error"
     /\ IndexPositions(section_index) = {}

\* The requirement records of the input documents.
InputRecords(files) == {InputItem(files, pos).req : pos \in InputPositions(files)}

\* The records that the run holds: in the index and in the rendered sections.
HeldRecords(index, rend) ==
  {index[ip[1]][ip[2]].items[ip[3]].req : ip \in IndexPositions(index)}
  \cup UNION {{rend[i].items[n].req : n \in 1..Len(rend[i].items)} : i \in 1..Len(rend)}

\* C20 -- Requirements are read-only inputs: no step of a run changes the
\* documents or a field of a requirement record, and every record that the
\* run holds is the input record, field by field.  (The step from a finished
\* run to a second run is a new input, not a step of the engine.)
C20_RequirementsReadOnly ==
  [][ /\ ~(pc = "done" /\ run = 1) => requirement_files' = requirement_files
      /\ HeldRecords(section_index', rendered') \subseteq InputRecords(requirement_files')
      /\ cur_req' \in InputRecords(requirement_files') \cup {Null} ]_vars

\* A finished run that assigned, indexed, numbered and sorted three records
\* or more, one of them with a references list: they are the input records.
C20_Witness ==
  /\ pc = "done"
  /\ Cardinality(HeldRecords(section_index, rendered)) >= 3
  /\ HeldRecords(section_index, rendered) = InputRecords(requirement_files)
  /\ \E r \in InputRecords(requirement_files) : RefPaths(r) # {}
  /\ \E i \in 1..Len(rendered) : Len(rendered[i].items) >= 2

\* The policy of the run with its firstMatchWins flag set to b.
WithFirstMatchWins(b) ==
  JDict(K_firstMatchWins :> JBool(b) @@ Val(assignment_policy))

\* C21 -- the firstMatchWins flag does not change the assigner's answer: for
\* the requirement just classified, under the taxonomy and policy of the run,
\* the assigner returns the same section id with the flag false (collect all
\* matches, return the first) as with the flag true (return at the first
\* match), and that id is the one the run computed.
C21_FlagDoesNotChangeAnswer ==
  Classified =>
    /\ _assign_brd_section_id(cur_req, sections, WithFirstMatchWins(FALSE))
         = _assign_brd_section_id(cur_req, sections, WithFirstMatchWins(TRUE))
    /\ computed_sid
         = _assign_brd_section_id(cur_req, sections, WithFirstMatchWins(FALSE))

\* The run's policy has the flag false and two sections with different ids
\* both match the requirement: the collected list has two entries.
C21_Witness ==
  /\ Classified /\ ~FirstMatchWinsSet
  /\ Len(sections) = 2
  /\ \A i \in 1..2 : HasUsableId(sections[i]) /\ SectionMatches(sections[i], cur_req)
  /\ DictGet(sections[1], K_id) # DictGet(sections[2], K_id)
  /\ computed_sid = Val(DictGet(sections[1], K_id))

\* The node carries a combinator key together with a leaf key, or both
\* combinator keys.
IsMixedNode(expr) ==
  /\ IsDict(expr)
  /\ \/ /\ K_any \in DOMAIN Val(expr) \/ K_all \in DOMAIN Val(expr)
        /\ K_field \in DOMAIN Val(expr) \/ K_op \in DOMAIN Val(expr)
     \/ K_any \in DOMAIN Val(expr) /\ K_all \in DOMAIN Val(expr)

\* C22 -- A node that carries both a combinator key (any/all) and the leaf
\* keys field/op, or both any and all, is malformed: it evaluates to false.
C22_MixedNodeIsFalse ==
  (Evaluated /\ IsMixedNode(ev_expr)) => ev_result = <<FALSE>>

\* C23 -- When neither the assigner's result nor the policy's fallback is a
\* valid id, the substituted id is a function of the set of valid ids alone:
\* a second run on the same taxonomy, hence with the same set of valid ids,
\* settles on the same fallback id as the first.
C23_SubstituteIsFunctionOfValidIds ==
  (run = 2 /\ pc \notin {"load", "error"}) =>
    unassigned_id = first[1].unassigned_id

\* The markers formatted so far: (rendered section, item) positions with a call
\* of the formatter.
FormattedPositions ==
  UNION {{<<i, n>> : n \in {k \in 1..Len(rendered[i].items) : rendered[i].citations[k] # <<>>}} :
           i \in 1..Len(rendered)}

\* C24 -- Two phases: while a requirement of a document is still to be
\* classified no citation number is assigned and no marker is formatted; once
\* the table is built every input requirement is in the index, and the table's
\* paths are the reference paths and origin keys of all classified
\* requirements, none missing and none more.
C24_NumberingAfterClassification ==
  /\ pc \in {"load", "open", "classify", "bib"} =>
       citation_number_by_rel = <<>> /\ FormattedPositions = {}
  /\ BibliographyBuilt =>
       /\ Cardinality(IndexPositions(section_index))
            = Cardinality(InputPositions(requirement_files))
       /\ DOMAIN citation_number_by_rel
            = UNION {RefPaths(item.req) \cup {Strip(item.docRel)} :
                       item \in IndexItems(section_index)}

\* Two documents with requirements; a requirement of the document processed
\* last has its markers formatted, one of them for its own origin key.
C24_Witness ==
  /\ pc = "done" /\ Len(requirement_files) = 2
  /\ FileReqs(requirement_files[1]) # <<>>
  /\ \E pos \in FormattedPositions :
       LET item == rendered[pos[1]].items[pos[2]] IN
       /\ item.docRel = DocKey(requirement_files[2])
       /\ item.docRel # DocKey(requirement_files[1])
       /\ Len(rendered[pos[1]].citations[pos[2]][1]) >= 6

\* C25 -- After the build pass the Classification Index is read-only: building
\* the bibliography and rendering a section (formatting its markers, sorting
\* its flattened items) leave the index as it was, and rendering leaves the
\* Bibliography Table as it was built.
C25_IndexFrozenAfterBuild ==
  [][ /\ pc \in {"bib", "render"} => section_index' = section_index
      /\ pc = "render" => citation_number_by_rel' = citation_number_by_rel ]_vars

\* A section was rendered whose presentation order is not the order of its
\* buckets, with markers formatted; the buckets still hold the build order.
C25_Witness ==
  /\ pc = "done" /\ citation_number_by_rel # <<>>
  /\ \E i \in 1..Len(rendered) :
       /\ rendered[i].items # Flatten(section_index[rendered[i].sid])
       /\ \E n \in 1..Len(rendered[i].items) : rendered[i].citations[n] # <<>>

\* The input records with their document keys, in the order they are met:
\* document after document, record after record.
RECURSIVE EncounterSeq(_, _)
EncounterSeq(files, f) ==
  IF f > Len(files) THEN <<>>
  ELSE [j \in 1..Len(FileReqs(files[f])) |-> InputItem(files, <<f, j>>)]
         \o EncounterSeq(files, f + 1)

\* The entries of a sequence whose sort key (the text of the id) is key.
WithKey(items, key) ==
  LET HasKey(item) == SortKey(item) = key IN SelectSeq(items, HasKey)

\* C26 -- Every (section, kind) bucket holds its entries in the order the
\* build pass met them, and the presentation order of a section is a stable
\* sort by requirement id, ascending, of the entries of all its kinds combined:
\* ids (compared as the text of the id, a missing id as the empty text) never
\* decrease along the sequence, and the entries of each id are those of the
\* combined list in the same relative order, so the sequence is a permutation.
C26_StableSortById ==
  /\ BuildOver =>
       \A s \in DOMAIN section_index : \A k \in 1..Len(section_index[s]) :
         LET InBucket(item) ==
               /\ _coerce_brd_section_id(
                     _assign_brd_section_id(item.req, sections, assignment_policy),
                     valid_section_ids, unassigned_id) = s
               /\ KindKey(item.req) = section_index[s][k].kind
         IN section_index[s][k].items
              = SelectSeq(EncounterSeq(requirement_files, 1), InBucket)
  /\ \A i \in 1..Len(rendered) :
       LET items == rendered[i].items
           combined == Flatten(section_index[rendered[i].sid]) IN
       /\ \A n \in 1..(Len(items) - 1) : ~StrLess(SortKey(items[n + 1]), SortKey(items[n]))
       /\ SeqToBag(items) = SeqToBag(combined)
       /\ \A item \in {combined[n] : n \in 1..Len(combined)} :
            WithKey(items, SortKey(item)) = WithKey(combined, SortKey(item))

\* A rendered section with entries of two kinds, not in the order of the
\* combined list, among them two different entries with the same id.
C26_Witness ==
  /\ pc = "done"
  /\ \E i \in 1..Len(rendered) :
       LET items == rendered[i].items IN
       /\ items # Flatten(section_index[rendered[i].sid])
       /\ Len(section_index[rendered[i].sid]) >= 2
       /\ \E n, m \in 1..Len(items) :
            n < m /\ items[n] # items[m] /\ SortKey(items[n]) = SortKey(items[m])

\* The sections of an index that hold the entry.
SectionsHolding(index, item) ==
  {s \in DOMAIN index :
     \E k \in 1..Len(index[s]) : \E n \in 1..Len(index[s][k].items) :
       index[s][k].items[n] = item}

\* The section of a requirement as a function of the requirement, the section
\* list and the policy, with the fallback id a run settled on.
SectionOf(req, fallback) ==
  _coerce_brd_section_id(_assign_brd_section_id(req, sections, assignment_policy),
                         valid_section_ids, fallback)

\* C27 -- Classification calls share no state: whatever was classified before,
\* the id computed for a requirement is the assigner's answer for that
\* requirement, the section list and the policy; every entry of the index sits
\* in the one section that function gives; and a second run that processes the
\* documents and requirements in another order puts every entry in the section
\* the same function gives, as the first run did.
C27_NoSharedStateBetweenCalls ==
  /\ Classified =>
       /\ computed_sid = _assign_brd_section_id(cur_req, sections, assignment_policy)
       /\ sid = SectionOf(cur_req, unassigned_id)
  /\ BuildOver =>
       \A item \in IndexItems(section_index) :
         SectionsHolding(section_index, item) = {SectionOf(item.req, unassigned_id)}
  /\ (run = 2 /\ BuildOver) =>
       \A item \in IndexItems(section_index) :
         SectionsHolding(first[1].section_index, item)
           = {SectionOf(item.req, first[1].unassigned_id)}

\* The second run met the documents in another order: the record it classifies
\* last was classified first in the first run, and the index has entries in
\* two sections.
C27_Witness ==
  /\ run = 2 /\ pc = "done" /\ Len(requirement_files) = 2
  /\ requirement_files[2] = first[1].requirement_files[1]
  /\ requirement_files[1] # requirement_files[2]
  /\ FileReqs(requirement_files[1]) # <<>> /\ FileReqs(requirement_files[2]) # <<>>
  /\ cur_req = FileReqs(first[1].requirement_files[1])[1]
  /\ Cardinality({s \in DOMAIN section_index : section_index[s] # <<>>}) = 2

\* The kind tags of the buckets that hold an entry of the requirement.
TagsHolding(index, req) ==
  {index[pos[1]][pos[2]].kind :
     pos \in {ip \in IndexPositions(index) : index[ip[1]][ip[2]].items[ip[3]].req = req}}

\* C28 as stated -- the kind tag a requirement is bucketed under is its kind
\* field when that is a non-blank string and "Other" in every other case, and
\* no record is dropped.
C28_KindTagIsKindField ==
  BuildOver =>
    /\ Cardinality(IndexPositions(section_index))
         = Cardinality(InputPositions(requirement_files))
    /\ \A pos \in InputPositions(requirement_files) :
         LET req == InputItem(requirement_files, pos).req
             kind == DictGet(req, K_kind) IN
         TagsHolding(section_index, req)
           = {IF NonBlankStr(kind) THEN Val(kind) ELSE S_Other}

\* C28 -- the kind tag a requirement is bucketed under is its kind field with
\* the white space around it trimmed when that field is a non-blank string,
\* and "Other" in every other case (kind missing, null, not a string, empty or
\* white space only); every input record is in a bucket, none is dropped.
C28_KindTagIsTrimmedKind ==
  BuildOver =>
    /\ Cardinality(IndexPositions(section_index))
         = Cardinality(InputPositions(requirement_files))
    /\ \A pos \in InputPositions(requirement_files) :
         LET req == InputItem(requirement_files, pos).req
             kind == DictGet(req, K_kind) IN
         TagsHolding(section_index, req)
           = {IF NonBlankStr(kind) THEN Strip(Val(kind)) ELSE S_Other}

\* Records with the kind missing, null, empty and a number are bucketed
\* under "Other", and the record with kind " F" under "F".
C28_Witness ==
  /\ pc = "done"
  /\ \E a, b, c, d, e \in IndexItems(section_index) :
       /\ K_kind \notin DOMAIN Val(a.req)
       /\ K_kind \in DOMAIN Val(b.req) /\ DictGet(b.req, K_kind) = Null
       /\ DictGet(c.req, K_kind) = JStr(<<>>)
       /\ Tag(DictGet(d.req, K_kind)) = "num"
       /\ DictGet(e.req, K_kind) = JStr(<<32, 70>>)
       /\ \A x \in {a, b, c, d} : TagsHolding(section_index, x.req) = {S_Other}
       /\ TagsHolding(section_index, e.req) = {<<70>>}

\* The number of markers "[n]" in a string of markers.
MarkerCount(markers) == Cardinality({i \in 1..Len(markers) : markers[i] = 91})

\* The distinct trimmed paths of an index entry: its requirement's non-blank
\* reference paths and its origin key.
EntryPaths(item) == RefPaths(item.req) \cup {Strip(item.docRel)}

\* C29 -- Once the table is built, every entry of the index has a non-blank
\* origin key, every path the formatter looks up for it is a key of the
\* table, and the formatter gives it as many markers as it has distinct
\* trimmed paths (reference paths and origin key), hence at least one; the
\* markers formatted while rendering are these.
C29_EveryEntryIsCited ==
  BibliographyBuilt =>
    /\ \A item \in IndexItems(section_index) :
         LET markers == _format_citations(item.req, JStr(item.docRel), citation_number_by_rel) IN
         /\ Strip(item.docRel) # <<>>
         /\ EntryPaths(item) \subseteq DOMAIN citation_number_by_rel
         /\ MarkerCount(markers) = Cardinality(EntryPaths(item))
         /\ MarkerCount(markers) >= 1
    /\ \A pos \in FormattedPositions :
         LET item == rendered[pos[1]].items[pos[2]]
             markers == rendered[pos[1]].citations[pos[2]][1] IN
         /\ MarkerCount(markers) = Cardinality(EntryPaths(item))
         /\ MarkerCount(markers) >= 1

\* A rendered entry with a reference path has two markers, and the entries of
\* another document, which declares a blank path, have the file's name as
\* their origin key.
C29_Witness ==
  /\ pc = "done"
  /\ \E pos \in FormattedPositions :
       /\ MarkerCount(rendered[pos[1]].citations[pos[2]][1]) = 2
       /\ RefPaths(rendered[pos[1]].items[pos[2]].req) # {}
  /\ \E f \in 1..Len(requirement_files) :
       /\ FileReqs(requirement_files[f]) # <<>>
       /\ DocKey(requirement_files[f]) = requirement_files[f].name
       /\ _safe_get(requirement_files[f].data, <<K_sourceDocument, K_relativePath>>, Null)
            = JStr(<<32, 32>>)

\* C30 -- When the taxonomy has a valid section id, the keys of the
\* Classification Index are the valid section ids at every point from the
\* start of the build pass on: each valid id has an entry, with no buckets
\* until a requirement lands there, and no classification adds another key.
C30_IndexKeysAreValidIds ==
  (valid_section_ids # {} /\ pc \in {"open", "classify", "bib", "render", "done"}) =>
    DOMAIN section_index = valid_section_ids

\* Two valid ids, one of them still without buckets after the build pass,
\* and a requirement whose computed id was not valid and was replaced.
C30_Witness ==
  /\ pc = "done" /\ Cardinality(valid_section_ids) = 2
  /\ \E s \in valid_section_ids : section_index[s] = <<>>
  /\ Classified /\ computed_sid \notin valid_section_ids /\ sid \in valid_section_ids

=============================================================================
